---- MODULE Spec2Model ----
(***************************************************************************)
(* Kisan GPT disease-risk inference: the rule-based weather risk engine    *)
(* (DiseasePredictionService, behind the /predict/weather route) and the   *)
(* ML image / weather classifiers (DiseaseMLService).                      *)
(*                                                                         *)
(* Numbers.  Weather values are integers.  Risk scores and confidences are *)
(* Python floats in the source; here they are exact integers in units of   *)
(* 1/ConfScale, where ConfScale is a common multiple of 20 and of every    *)
(* critical_days of the table, so that every score the code can compute is *)
(* an integer number of units.  For the values of the table the float      *)
(* comparisons of the code and the exact ones agree.                       *)
(*                                                                         *)
(* Dictionaries.  A dictionary value is Num(n), Absent (the key is not in  *)
(* the dict) or Bad (the key is there with a value that is no number:      *)
(* null, a string), on which Python's comparisons and arithmetic raise.    *)
(***************************************************************************)
EXTENDS Integers, Sequences, FiniteSets, TLC

VARIABLES
    disease_models,     \* DiseasePredictionService.disease_models
    request,            \* the weather-risk request being served, or NoRequest
    response,           \* what the /predict/weather route answered, or NoResponse
    image_classifier,   \* DiseaseMLService.image_classifier
    weather_classifier, \* DiseaseMLService.weather_classifier
    scaler_fitted,      \* whether DiseaseMLService.scaler has been fitted
    ml_request,         \* the ML request being served, or NoRequest
    ml_response,        \* what the ML route answered, or NoResponse
    disease_info,       \* DiseaseDatabase.disease_info
    db_request,         \* the catalog request being served, or NoRequest
    db_response         \* what the catalog operation returned, or NoResponse

vars == <<disease_models, request, response,
          image_classifier, weather_classifier, scaler_fitted,
          ml_request, ml_response,
          disease_info, db_request, db_response>>

risk_vars == <<disease_models, request, response>>
ml_vars == <<image_classifier, weather_classifier, scaler_fitted, ml_request, ml_response>>
db_vars == <<disease_info, db_request, db_response>>

(***************************************************************************)
(* Bounds of the model                                                     *)
(***************************************************************************)
\* the longest forecast list a request carries
MaxForecastLen == 2
\* the largest forecast_horizon_days a request asks for
MaxHorizon == 2
\* the longest list of symptoms a search is given
MaxSymptoms == 2
\* the longest forecast and the largest horizon of the requests that probe
\* the critical window of the forecast scan
MaxScanDays == 5

(***************************************************************************)
(* Values                                                                  *)
(***************************************************************************)
Num(n) == [k |-> "num", v |-> n]
Absent == [k |-> "absent", v |-> 0]
Bad == [k |-> "bad", v |-> 0]

\* dict.get(key, default)
DictGet(x, default) == IF x.k = "absent" THEN default ELSE x

Min(a, b) == IF a <= b THEN a ELSE b
Max(a, b) == IF a >= b THEN a ELSE b

\* list[:n] of Python: the first n elements, all but the last -n when n < 0
PySlice(s, n) ==
    IF n >= 0 THEN SubSeq(s, 1, Min(n, Len(s)))
    ELSE SubSeq(s, 1, Max(0, Len(s) + n))

\* one unit is 1/ConfScale; 210 = lcm(3, 5, 7, 10, 14, 21), the critical_days
ConfScale == 20 * 210
Tenths(n) == n * (ConfScale \div 10)

NoRequest == [kind |-> "none"]
NoResponse == [kind |-> "none"]

(***************************************************************************)
(* DiseasePredictionService._initialize_disease_models                     *)
(***************************************************************************)
DiseaseModel(name, lo, hi, hmin, rmin, crit) ==
    [name |-> name, temperature_range |-> <<lo, hi>>, humidity_min |-> hmin,
     rainfall_threshold |-> rmin, critical_days |-> crit]

RegisteredCrops == {"rice", "wheat", "cotton", "tomato", "onion", "sugarcane"}

\* crop -> its diseases, in the order the dict literal lists them
_initialize_disease_models ==
    [c \in RegisteredCrops |->
        CASE c = "rice" ->
               << DiseaseModel("blast", 20, 30, 85, 10, 7),
                  DiseaseModel("brown_spot", 25, 35, 80, 5, 5),
                  DiseaseModel("bacterial_blight", 25, 32, 90, 15, 10) >>
          [] c = "wheat" ->
               << DiseaseModel("rust", 15, 25, 70, 2, 14),
                  DiseaseModel("powdery_mildew", 16, 22, 85, 1, 7),
                  DiseaseModel("fusarium_head_blight", 20, 30, 75, 5, 3) >>
          [] c = "cotton" ->
               << DiseaseModel("wilt", 28, 35, 40, 0, 21),
                  DiseaseModel("boll_rot", 25, 32, 85, 8, 5),
                  DiseaseModel("bacterial_blight", 27, 35, 70, 3, 7) >>
          [] c = "tomato" ->
               << DiseaseModel("blight", 18, 25, 90, 10, 5),
                  DiseaseModel("fusarium_wilt", 25, 35, 50, 0, 14),
                  DiseaseModel("bacterial_spot", 24, 30, 75, 2, 3) >>
          [] c = "onion" ->
               << DiseaseModel("purple_blotch", 20, 30, 80, 5, 7),
                  DiseaseModel("downy_mildew", 10, 20, 95, 15, 3) >>
          [] c = "sugarcane" ->
               << DiseaseModel("red_rot", 25, 35, 60, 20, 14),
                  DiseaseModel("smut", 26, 32, 70, 5, 10) >> ]

\* str.lower() on the crop names the requests of the model use
Lower(crop) ==
    CASE crop = "Wheat" -> "wheat"
      [] crop = "Rice" -> "rice"
      [] OTHER -> crop

\* self.disease_models.get(crop.lower(), {})
CropDiseases(models, crop) ==
    IF Lower(crop) \in DOMAIN models THEN models[Lower(crop)] ELSE << >>

(***************************************************************************)
(* DiseasePredictionService._assess_disease_risk                           *)
(***************************************************************************)
\* temp_range[0] <= t <= temp_range[1]
TempInRange(m, t) == m.temperature_range[1] <= t.v /\ t.v <= m.temperature_range[2]
\* the humidity comparison turned round
HumidityMetInverted(m, h) == h.v <= m.humidity_min

\* h >= humidity_threshold
HumidityMet(m, h) == h.v >= m.humidity_min
\* r >= rainfall_threshold
RainfallMet(m, r) == r.v >= m.rainfall_threshold

\* the values the forecast loop reads for one day
DayTemp(day, current_temp) == DictGet(day.temp_avg, current_temp)
DayHumidity(day, current_humidity) == DictGet(day.humidity_avg, current_humidity)
DayRainfall(day) == DictGet(day.rainfall, Num(0))

\* day_favorable: how many of the three predicates hold on a forecast day
DayFavorable(m, day, current_temp, current_humidity) ==
    (IF TempInRange(m, DayTemp(day, current_temp)) THEN 1 ELSE 0)
    + (IF HumidityMet(m, DayHumidity(day, current_humidity)) THEN 1 ELSE 0)
    + (IF RainfallMet(m, DayRainfall(day)) THEN 1 ELSE 0)

\* the loop body without the test of the critical window
ScanDayAnyFavorable(m, day, i, current_temp, current_humidity, horizon_days, acc) ==
    IF DayFavorable(m, day, current_temp, current_humidity) >= 2
    THEN [favorable_days |-> acc.favorable_days + 1,
          days_until_risk |->
              IF acc.days_until_risk > horizon_days
              THEN i + 1 ELSE acc.days_until_risk]
    ELSE acc

\* one pass of the body of the forecast loop, i the 0-based index of the day
ScanDay(m, day, i, current_temp, current_humidity, horizon_days, acc) ==
    IF DayFavorable(m, day, current_temp, current_humidity) >= 2
    THEN [favorable_days |-> acc.favorable_days + 1,
          days_until_risk |->
              IF acc.days_until_risk > horizon_days /\ i < m.critical_days
              THEN i + 1 ELSE acc.days_until_risk]
    ELSE acc

RECURSIVE ForecastScan(_, _, _, _, _, _, _)
\* for i, day_forecast in enumerate(forecast_data[:horizon_days]), from index i on
ForecastScan(m, days, i, current_temp, current_humidity, horizon_days, acc) ==
    IF i >= Len(days) THEN acc
    ELSE ForecastScan(m, days, i + 1, current_temp, current_humidity, horizon_days,
             ScanDay(m, days[i + 1], i, current_temp, current_humidity, horizon_days, acc))

\* whether the body of the try block raises: a comparison with a value that is
\* no number, or the slice of a forecast that is no list
AssessRaises(current_temp, current_humidity, current_rainfall, forecast_data, horizon_days) ==
    \/ current_temp.k = "bad"
    \/ current_humidity.k = "bad"
    \/ current_rainfall.k = "bad"
    \/ forecast_data.k = "bad"
    \/ \E i \in DOMAIN PySlice(forecast_data.days, horizon_days) :
          LET day == forecast_data.days[i] IN
          \/ DayTemp(day, current_temp).k = "bad"
          \/ DayHumidity(day, current_humidity).k = "bad"
          \/ DayRainfall(day).k = "bad"

\* the trigger strings (the source writes the degree and the >= signs in Unicode)
TemperatureTrigger(m) ==
    "Temperature in optimal range (" \o ToString(m.temperature_range[1]) \o "-"
        \o ToString(m.temperature_range[2]) \o " C)"
HumidityTrigger(m) == "High humidity (>=" \o ToString(m.humidity_min) \o "%)"
RainfallTrigger(m) == "Sufficient rainfall (>=" \o ToString(m.rainfall_threshold) \o "mm)"

\* current_risk and triggers of the current conditions
CurrentRisk(m, current_temp, current_humidity, current_rainfall) ==
    (IF TempInRange(m, current_temp) THEN Tenths(3) ELSE 0)
    + (IF HumidityMet(m, current_humidity) THEN Tenths(3) ELSE 0)
    + (IF RainfallMet(m, current_rainfall) THEN Tenths(2) ELSE 0)

CurrentTriggers(m, current_temp, current_humidity, current_rainfall) ==
    (IF TempInRange(m, current_temp) THEN << TemperatureTrigger(m) >> ELSE << >>)
    \o (IF HumidityMet(m, current_humidity) THEN << HumidityTrigger(m) >> ELSE << >>)
    \o (IF RainfallMet(m, current_rainfall) THEN << RainfallTrigger(m) >> ELSE << >>)

\* min(1.0, favorable_days / critical_days)
ForecastRisk(m, favorable_days) ==
    Min(ConfScale, (favorable_days * ConfScale) \div m.critical_days)

\* the two terms added and not halved
OverallRiskNotHalved(current_risk, forecast_risk) == current_risk + forecast_risk

\* (current_risk + forecast_risk) / 2
OverallRisk(current_risk, forecast_risk) == (current_risk + forecast_risk) \div 2

\* the margin subtracted instead of added
ConfidenceSignSlip(overall_risk) == Min(ConfScale, overall_risk - Tenths(1))

\* min(1.0, overall_risk + 0.1)
Confidence(overall_risk) == Min(ConfScale, overall_risk + Tenths(1))

\* the medium threshold taken strictly
RiskLevelStrictMedium(overall_risk) ==
    IF overall_risk >= Tenths(7) THEN "high"
    ELSE IF overall_risk > Tenths(4) THEN "medium"
    ELSE IF overall_risk >= Tenths(2) THEN "low"
    ELSE "negligible"

\* the level low given from 0.3 only
RiskLevelLowFromThreeTenths(overall_risk) ==
    IF overall_risk >= Tenths(7) THEN "high"
    ELSE IF overall_risk >= Tenths(4) THEN "medium"
    ELSE IF overall_risk >= Tenths(3) THEN "low"
    ELSE "negligible"

\* the if/elif chain on overall_risk
RiskLevel(overall_risk) ==
    IF overall_risk >= Tenths(7) THEN "high"
    ELSE IF overall_risk >= Tenths(4) THEN "medium"
    ELSE IF overall_risk >= Tenths(2) THEN "low"
    ELSE "negligible"

\* the except branch
AssessmentError ==
    [risk_level |-> "low", days_until_risk |-> 7, confidence |-> Tenths(3),
     triggers |-> << "Assessment error" >>, favorable_days |-> 0]

_assess_disease_risk(m, current_temp, current_humidity, current_rainfall, forecast_data, horizon_days) ==
    IF AssessRaises(current_temp, current_humidity, current_rainfall,
                    forecast_data, horizon_days)
    THEN AssessmentError
    ELSE LET scan == ForecastScan(m, PySlice(forecast_data.days, horizon_days), 0,
                         current_temp, current_humidity, horizon_days,
                         [favorable_days |-> 0, days_until_risk |-> horizon_days + 1])
             overall_risk ==
                 OverallRisk(CurrentRisk(m, current_temp, current_humidity, current_rainfall),
                             ForecastRisk(m, scan.favorable_days))
         IN [risk_level |-> RiskLevel(overall_risk),
             days_until_risk |-> Min(scan.days_until_risk, horizon_days),
             confidence |-> Confidence(overall_risk),
             triggers |-> CurrentTriggers(m, current_temp, current_humidity, current_rainfall),
             favorable_days |-> scan.favorable_days]

(***************************************************************************)
(* DiseasePredictionService._generate_weather_forecast                     *)
(*                                                                         *)
(* A draw is what numpy's generator yields for one day: the temperature    *)
(* variation, the humidity variation and the rainfall.  The source draws   *)
(* reals; the model draws from SynthDraws.                                 *)
(***************************************************************************)
SynthDraws ==
    { [temp_variation |-> 0, humidity_variation |-> 0, rainfall |-> 0],
      [temp_variation |-> 0, humidity_variation |-> -10, rainfall |-> 0],
      [temp_variation |-> 6, humidity_variation |-> 10, rainfall |-> 12] }

\* range(days) is empty for days <= 0
DrawSeqs(days) == [1 .. Max(days, 0) -> SynthDraws]

\* base_temp + temp_variation and base_humidity + humidity_variation raise on a
\* base that is no number, in the first pass of the loop
GenerateRaises(current_weather, days) ==
    /\ days >= 1
    /\ \/ DictGet(current_weather.temperature, Num(25)).k = "bad"
       \/ DictGet(current_weather.humidity, Num(60)).k = "bad"

_generate_weather_forecast(current_weather, days, draws) ==
    LET base_temp == DictGet(current_weather.temperature, Num(25)).v
        base_humidity == DictGet(current_weather.humidity, Num(60)).v
    IN [k |-> "list",
        days |-> [i \in 1 .. Max(days, 0) |->
            [temp_avg |-> Num(base_temp + draws[i].temp_variation),
             humidity_avg |-> Num(Max(30, Min(95, base_humidity + draws[i].humidity_variation))),
             rainfall |-> Num(draws[i].rainfall)]]]

(***************************************************************************)
(* DiseasePredictionService._get_preventive_actions                        *)
(***************************************************************************)
PreventiveActionKeys ==
    { <<"rice", "blast">>, <<"rice", "brown_spot">>, <<"rice", "bacterial_blight">>,
      <<"wheat", "rust">>, <<"wheat", "powdery_mildew">>, <<"wheat", "fusarium_head_blight">>,
      <<"cotton", "wilt">>, <<"cotton", "boll_rot">>, <<"cotton", "bacterial_blight">>,
      <<"tomato", "blight">>, <<"tomato", "fusarium_wilt">>, <<"tomato", "bacterial_spot">>,
      <<"onion", "purple_blotch">>, <<"onion", "downy_mildew">>,
      <<"sugarcane", "red_rot">>, <<"sugarcane", "smut">> }

\* the specific action of the table when there is one (named by its key: the
\* texts are fixed strings no decision reads), else the generic one of the level
_get_preventive_actions(crop, disease, risk_assessment) ==
    IF <<Lower(crop), disease>> \in PreventiveActionKeys
    THEN "action:" \o Lower(crop) \o "/" \o disease
    ELSE IF risk_assessment.risk_level = "high" THEN "generic action: high"
    ELSE IF risk_assessment.risk_level = "medium" THEN "generic action: medium"
    ELSE "generic action: low"

(***************************************************************************)
(* DiseasePredictionService._get_generic_disease_risks                     *)
(***************************************************************************)
\* humidity > 85, rainfall > 10 or 20 <= temperature on a value that is no number
GenericRaises(current_weather) ==
    \/ DictGet(current_weather.humidity, Num(60)).k = "bad"
    \/ DictGet(current_weather.rainfall, Num(0)).k = "bad"
    \/ DictGet(current_weather.temperature, Num(25)).k = "bad"

\* the weaker thresholds tested with if instead of elif: counted twice
GenericRiskFactorsCountedTwice(current_weather) ==
    LET humidity == DictGet(current_weather.humidity, Num(60)).v
        temperature == DictGet(current_weather.temperature, Num(25)).v
        rainfall == DictGet(current_weather.rainfall, Num(0)).v
    IN (IF humidity > 85 THEN << "Very high humidity favors fungal diseases" >> ELSE << >>)
       \o (IF humidity > 70 THEN << "High humidity increases disease risk" >> ELSE << >>)
       \o (IF rainfall > 10 THEN << "Heavy rainfall creates disease-favorable conditions" >>
           ELSE << >>)
       \o (IF rainfall > 2 THEN << "Rainfall may increase disease pressure" >> ELSE << >>)
       \o (IF 20 <= temperature /\ temperature <= 30
           THEN << "Temperature suitable for most plant diseases" >> ELSE << >>)

\* risk_factors
GenericRiskFactors(current_weather) ==
    LET humidity == DictGet(current_weather.humidity, Num(60)).v
        temperature == DictGet(current_weather.temperature, Num(25)).v
        rainfall == DictGet(current_weather.rainfall, Num(0)).v
    IN (IF humidity > 85 THEN << "Very high humidity favors fungal diseases" >>
        ELSE IF humidity > 70 THEN << "High humidity increases disease risk" >>
        ELSE << >>)
       \o (IF rainfall > 10 THEN << "Heavy rainfall creates disease-favorable conditions" >>
           ELSE IF rainfall > 2 THEN << "Rainfall may increase disease pressure" >>
           ELSE << >>)
       \o (IF 20 <= temperature /\ temperature <= 30
           THEN << "Temperature suitable for most plant diseases" >> ELSE << >>)

\* the generic entry of a level
GenericEntry(crop, risk_level, days_until, risk_factors) ==
    [disease |-> crop \o "_general_disease_risk",
     risk_level |-> risk_level,
     days_until_expected |-> days_until,
     preventive_action |-> "generic action of " \o crop \o ": " \o risk_level,
     confidence |-> Tenths(6),
     environmental_triggers |-> risk_factors]

\* a call's outcome: the list it returns, or an exception raised to its caller
Returns(list) == [raised |-> FALSE, value |-> list]
Raises == [raised |-> TRUE, value |-> << >>]

\* the early return of the empty list left out: risk_level is unbound below
GenericRisksNoEarlyReturn(crop, current_weather) ==
    IF GenericRaises(current_weather) THEN Raises
    ELSE LET risk_factors == GenericRiskFactors(current_weather) IN
         IF Len(risk_factors) >= 3 THEN Returns(<< GenericEntry(crop, "high", 3, risk_factors) >>)
         ELSE IF Len(risk_factors) >= 2 THEN Returns(<< GenericEntry(crop, "medium", 7, risk_factors) >>)
         ELSE IF Len(risk_factors) >= 1 THEN Returns(<< GenericEntry(crop, "low", 10, risk_factors) >>)
         ELSE Raises

_get_generic_disease_risks(crop, current_weather) ==
    IF GenericRaises(current_weather) THEN Raises
    ELSE LET risk_factors == GenericRiskFactors(current_weather) IN
         IF Len(risk_factors) >= 3 THEN Returns(<< GenericEntry(crop, "high", 3, risk_factors) >>)
         ELSE IF Len(risk_factors) >= 2 THEN Returns(<< GenericEntry(crop, "medium", 7, risk_factors) >>)
         ELSE IF Len(risk_factors) >= 1 THEN Returns(<< GenericEntry(crop, "low", 10, risk_factors) >>)
         ELSE Returns(<< >>)

(***************************************************************************)
(* DiseasePredictionService.predict_disease_risk                           *)
(***************************************************************************)
\* ['low', 'medium', 'high'].index(risk_level)
RiskRank(risk_level) ==
    CASE risk_level = "low" -> 0
      [] risk_level = "medium" -> 1
      [] risk_level = "high" -> 2

\* the days not negated: the latest onset first
SortKeyLatestFirst(x) == << RiskRank(x.risk_level), x.days_until_expected >>

\* the sort key of an entry: (rank, -days_until_expected)
SortKey(x) == << RiskRank(x.risk_level), 0 - x.days_until_expected >>

\* tuple comparison a < b of two sort keys
KeyLess(a, b) == a[1] < b[1] \/ (a[1] = b[1] /\ a[2] < b[2])

\* x put into a list sorted in descending key order, behind the entries whose
\* key is not smaller (list.sort is stable, with reverse=True too)
InsertByKey(sorted, x) ==
    LET n == Cardinality({i \in DOMAIN sorted : ~KeyLess(SortKey(sorted[i]), SortKey(x))})
    IN SubSeq(sorted, 1, n) \o << x >> \o SubSeq(sorted, n + 1, Len(sorted))

RECURSIVE SortRisks(_)
\* disease_risks.sort(key=..., reverse=True)
SortRisks(disease_risks) ==
    IF disease_risks = << >> THEN << >>
    ELSE InsertByKey(SortRisks(SubSeq(disease_risks, 1, Len(disease_risks) - 1)),
                     disease_risks[Len(disease_risks)])

\* the entry appended for a disease that is not assessed negligible
RiskEntry(crop, m, risk_assessment) ==
    [disease |-> crop \o "_" \o m.name,
     risk_level |-> risk_assessment.risk_level,
     days_until_expected |-> risk_assessment.days_until_risk,
     preventive_action |-> _get_preventive_actions(crop, m.name, risk_assessment),
     confidence |-> risk_assessment.confidence,
     environmental_triggers |-> risk_assessment.triggers]

\* the generated forecast used whatever the request carries
ForecastDataGenerated(current_weather, generated) == generated

\* current_weather.get('forecast', <the generated forecast>)
ForecastData(current_weather, generated) == DictGet(current_weather.forecast, generated)

\* the loop over crop_diseases with the entries of level low dropped as well
DiseaseRisksLowDropped(crop, crop_diseases, current_weather, forecast_data, horizon_days) ==
    LET entries == [i \in DOMAIN crop_diseases |->
                      RiskEntry(crop, crop_diseases[i],
                          _assess_disease_risk(crop_diseases[i],
                              DictGet(current_weather.temperature, Num(25)),
                              DictGet(current_weather.humidity, Num(60)),
                              DictGet(current_weather.rainfall, Num(0)),
                              forecast_data, horizon_days))]
    IN SelectSeq(entries, LAMBDA e : e.risk_level \notin {"negligible", "low"})

\* the loop over crop_diseases: the entries in the order of the table
DiseaseRisks(crop, crop_diseases, current_weather, forecast_data, horizon_days) ==
    LET current_temp == DictGet(current_weather.temperature, Num(25))
        current_humidity == DictGet(current_weather.humidity, Num(60))
        current_rainfall == DictGet(current_weather.rainfall, Num(0))
        entries == [i \in DOMAIN crop_diseases |->
                      RiskEntry(crop, crop_diseases[i],
                          _assess_disease_risk(crop_diseases[i], current_temp, current_humidity,
                              current_rainfall, forecast_data, horizon_days))]
    IN SelectSeq(entries, LAMBDA e : e.risk_level # "negligible")

\* no try block around the scoring of a disease: its exception reaches the
\* handler of the whole call
PredictWithoutIsolation(models, crop, current_weather, forecast_horizon_days, draws) ==
    LET crop_diseases == CropDiseases(models, crop)
        forecast_data == ForecastData(current_weather,
            _generate_weather_forecast(current_weather, forecast_horizon_days, draws))
    IN
    IF crop_diseases = << >>
    THEN _get_generic_disease_risks(crop, current_weather)
    ELSE IF GenerateRaises(current_weather, forecast_horizon_days)
    THEN _get_generic_disease_risks(crop, current_weather)
    ELSE IF AssessRaises(DictGet(current_weather.temperature, Num(25)),
                DictGet(current_weather.humidity, Num(60)),
                DictGet(current_weather.rainfall, Num(0)),
                forecast_data, forecast_horizon_days)
    THEN _get_generic_disease_risks(crop, current_weather)
    ELSE Returns(SortRisks(DiseaseRisks(crop, crop_diseases, current_weather,
             forecast_data, forecast_horizon_days)))

\* draws: what the random generator yields during the call
predict_disease_risk(models, crop, current_weather, forecast_horizon_days, draws) ==
    LET crop_diseases == CropDiseases(models, crop) IN
    IF crop_diseases = << >>
    THEN _get_generic_disease_risks(crop, current_weather)
    ELSE IF GenerateRaises(current_weather, forecast_horizon_days)
    THEN _get_generic_disease_risks(crop, current_weather)
    ELSE Returns(SortRisks(DiseaseRisks(crop, crop_diseases, current_weather,
             ForecastData(current_weather,
                 _generate_weather_forecast(current_weather, forecast_horizon_days, draws)),
             forecast_horizon_days)))

(***************************************************************************)
(* routes/disease.py: POST /predict/weather                                *)
(***************************************************************************)
\* WeatherBasedPredictionRequest: forecast_horizon_days is declared int, with a
\* default and no range
WeatherBasedPredictionRequest(req) == req.forecast_horizon_days \in Int

Rejected(code) == [kind |-> "rejected", status_code |-> code]

predict_disease_by_weather(models, req, draws) ==
    IF ~WeatherBasedPredictionRequest(req) THEN Rejected(422)
    ELSE LET result == predict_disease_risk(models, req.crop, req.current_weather,
                           req.forecast_horizon_days, draws)
         IN IF result.raised THEN Rejected(500)
            ELSE [kind |-> "ok", status |-> "success",
                  prediction_type |-> "weather_based_rules",
                  crop |-> req.crop, district |-> req.district,
                  forecast_days |-> req.forecast_horizon_days,
                  disease_risks |-> result.value,
                  total_risks_identified |-> Len(result.value)]

(***************************************************************************)
(* The requests of the model                                               *)
(***************************************************************************)
CropInputs == {"Wheat", "maize"}
TemperatureInputs == {Absent, Bad, Num(18), Num(25)}
HumidityInputs == {Absent, Bad, Num(80), Num(90)}
RainfallInputs == {Absent, Bad, Num(5), Num(15)}
HorizonInputs == {-1, 0} \cup (1 .. MaxHorizon)

\* forecast days: a wet mild day, an entry with no field (the current values
\* stand in), and a day whose rainfall is null
ForecastDays ==
    { [temp_avg |-> Num(25), humidity_avg |-> Num(90), rainfall |-> Num(15)],
      [temp_avg |-> Absent, humidity_avg |-> Absent, rainfall |-> Absent],
      [temp_avg |-> Num(25), humidity_avg |-> Num(90), rainfall |-> Bad] }

\* the 'forecast' key of current_weather: not there, null, or a list of days
ForecastInputs ==
    {Absent, [k |-> "bad", days |-> << >>]}
    \cup { [k |-> "list", days |-> d] :
             d \in UNION { [1 .. n -> ForecastDays] : n \in 0 .. MaxForecastLen } }

WeatherRequests ==
    { [kind |-> "weather", crop |-> c, district |-> "pune",
       current_weather |-> [temperature |-> t, humidity |-> h, rainfall |-> r, forecast |-> f],
       forecast_horizon_days |-> n] :
         c \in CropInputs, t \in TemperatureInputs, h \in HumidityInputs,
         r \in RainfallInputs, f \in ForecastInputs, n \in HorizonInputs }

(***************************************************************************)
(* DiseaseDatabase._initialize_disease_database                            *)
(***************************************************************************)
\* the ids of the catalog, in the order the dict literal lists them
DiseaseIds ==
    << "rice_blast",
       "rice_brown_spot",
       "wheat_rust",
       "tomato_blight",
       "cotton_wilt",
       "onion_purple_blotch",
       "sugarcane_red_rot" >>

\* disease id -> its record; the degree sign of temperature_range is written " deg"
_initialize_disease_database ==
    [d \in { DiseaseIds[i] : i \in DOMAIN DiseaseIds } |->
        CASE d = "rice_blast" ->
               [name |-> "Rice Blast",
                scientific_name |-> "Pyricularia oryzae",
                crop |-> "rice",
                type |-> "fungal",
                severity |-> "high",
                symptoms |->
                  << "Diamond-shaped lesions with gray centers and brown margins on leaves",
                     "White to gray lesions with brown borders on stems",
                     "Neck rot causing panicle death",
                     "Reduced grain filling and quality" >>,
                conditions |->
                  [temperature_range |-> "20-30 degC",
                   humidity |-> ">85%",
                   rainfall |-> "High (>10mm)",
                   favorable_conditions |-> "Cool nights with high humidity, dense crop canopy"],
                prevention |->
                  << "Use resistant varieties",
                     "Maintain proper plant spacing",
                     "Apply balanced fertilization (avoid excess nitrogen)",
                     "Ensure good drainage",
                     "Remove infected crop debris" >>,
                treatment |->
                  [chemical |->
                      << "Tricyclazole 75% WP @ 0.6g/L",
                         "Carbendazim 50% WP @ 1g/L",
                         "Propiconazole 25% EC @ 1ml/L" >>,
                   organic |->
                      << "Neem oil spray @ 3-5ml/L",
                         "Pseudomonas fluorescens @ 2.5kg/ha",
                         "Trichoderma viride @ 2.5kg/ha" >>,
                   cultural |->
                      << "Remove excess water from fields",
                         "Apply silicon fertilizer",
                         "Use pheromone traps for monitoring" >>],
                economic_impact |->
                  "Can cause 10-85% yield loss depending on variety and environmental conditions",
                stages_affected |-> << "seedling",
                                      "tillering",
                                      "panicle_initiation",
                                      "flowering" >>,
                geographic_distribution |-> "Global - major rice growing regions"]
          [] d = "rice_brown_spot" ->
               [name |-> "Rice Brown Spot",
                scientific_name |-> "Bipolaris oryzae",
                crop |-> "rice",
                type |-> "fungal",
                severity |-> "medium",
                symptoms |->
                  << "Small, circular brown spots on leaves",
                     "Dark brown lesions on leaf sheaths",
                     "Blackening of glumes and grains",
                     "Reduced grain quality and weight" >>,
                conditions |->
                  [temperature_range |-> "25-35 degC",
                   humidity |-> ">80%",
                   rainfall |-> "Moderate (5-15mm)",
                   favorable_conditions |-> "Water stress, nutrient deficiency, high temperature"],
                prevention |->
                  << "Use disease-free seeds",
                     "Maintain balanced nutrition",
                     "Proper water management",
                     "Avoid water stress",
                     "Use tolerant varieties" >>,
                treatment |->
                  [chemical |->
                      << "Propiconazole 25% EC @ 1ml/L",
                         "Mancozeb 75% WP @ 2g/L",
                         "Hexaconazole 5% SC @ 2ml/L" >>,
                   organic |->
                      << "Neem cake application @ 250kg/ha",
                         "Bacillus subtilis spray",
                         "Potassium bicarbonate @ 5g/L" >>,
                   cultural |->
                      << "Ensure adequate potash supply",
                         "Maintain proper water levels",
                         "Apply organic matter" >>],
                economic_impact |->
                  "Can cause 5-45% yield loss, especially under stress conditions",
                stages_affected |-> << "tillering",
                                      "booting",
                                      "grain_filling" >>,
                geographic_distribution |-> "Tropical and subtropical rice regions"]
          [] d = "wheat_rust" ->
               [name |-> "Wheat Rust",
                scientific_name |-> "Puccinia graminis, P. striiformis, P. triticina",
                crop |-> "wheat",
                type |-> "fungal",
                severity |-> "high",
                symptoms |->
                  << "Orange to reddish-brown pustules on leaves and stems",
                     "Yellow stripes on leaves (yellow rust)",
                     "Black pustules on stems (stem rust)",
                     "Premature leaf senescence" >>,
                conditions |->
                  [temperature_range |-> "15-25 degC",
                   humidity |-> ">70%",
                   rainfall |-> "Light to moderate",
                   favorable_conditions |-> "Moderate temperatures, high humidity, dew formation"],
                prevention |->
                  << "Use resistant varieties",
                     "Early sowing",
                     "Proper plant spacing",
                     "Remove alternate hosts",
                     "Balanced fertilization" >>,
                treatment |->
                  [chemical |->
                      << "Propiconazole 25% EC @ 1ml/L",
                         "Tebuconazole 25% WG @ 1g/L",
                         "Triazophos 40% EC @ 2ml/L" >>,
                   organic |->
                      << "Sulfur dust @ 20-25kg/ha",
                         "Trichoderma application",
                         "Baking soda spray @ 5g/L" >>,
                   cultural |->
                      << "Remove infected plant debris",
                         "Avoid excessive nitrogen",
                         "Ensure good air circulation" >>],
                economic_impact |->
                  "Can cause 10-70% yield loss in susceptible varieties",
                stages_affected |-> << "tillering",
                                      "stem_elongation",
                                      "flowering" >>,
                geographic_distribution |-> "Global wheat production areas"]
          [] d = "tomato_blight" ->
               [name |-> "Tomato Late Blight",
                scientific_name |-> "Phytophthora infestans",
                crop |-> "tomato",
                type |-> "oomycete",
                severity |-> "high",
                symptoms |->
                  << "Dark brown to black lesions on leaves",
                     "Water-soaked spots on fruits",
                     "White fungal growth on leaf undersides",
                     "Rapid plant death in severe cases" >>,
                conditions |->
                  [temperature_range |-> "18-25 degC",
                   humidity |-> ">90%",
                   rainfall |-> "High (>10mm)",
                   favorable_conditions |-> "Cool, moist conditions with poor air circulation"],
                prevention |->
                  << "Use resistant varieties",
                     "Ensure good air circulation",
                     "Avoid overhead irrigation",
                     "Proper plant spacing",
                     "Remove plant debris" >>,
                treatment |->
                  [chemical |->
                      << "Copper hydroxide @ 2-3g/L",
                         "Mancozeb 75% WP @ 2.5g/L",
                         "Cymoxanil 8% + Mancozeb 64% WP @ 2g/L" >>,
                   organic |->
                      << "Copper sulfate @ 2g/L",
                         "Bacillus subtilis spray",
                         "Potassium bicarbonate @ 5g/L" >>,
                   cultural |->
                      << "Improve drainage",
                         "Reduce humidity around plants",
                         "Remove infected plant parts immediately" >>],
                economic_impact |->
                  "Can destroy entire crop within days under favorable conditions",
                stages_affected |-> << "all_stages" >>,
                geographic_distribution |-> "Global - wherever tomatoes are grown"]
          [] d = "cotton_wilt" ->
               [name |-> "Cotton Wilt",
                scientific_name |-> "Fusarium oxysporum f.sp. vasinfectum",
                crop |-> "cotton",
                type |-> "fungal",
                severity |-> "high",
                symptoms |->
                  << "Yellowing of leaves starting from bottom",
                     "Wilting of plants during day",
                     "Brown discoloration of vascular tissue",
                     "Stunted growth and premature death" >>,
                conditions |->
                  [temperature_range |-> "28-35 degC",
                   humidity |-> "40-60%",
                   rainfall |-> "Low to moderate",
                   favorable_conditions |-> "High soil temperature, water stress, poor drainage"],
                prevention |->
                  << "Use resistant varieties",
                     "Crop rotation with non-host crops",
                     "Deep summer plowing",
                     "Proper drainage",
                     "Soil solarization" >>,
                treatment |->
                  [chemical |->
                      << "Carbendazim 50% WP @ 1g/L (soil drench)",
                         "Trichoderma harzianum @ 2.5kg/ha",
                         "Pseudomonas fluorescens @ 2.5kg/ha" >>,
                   organic |->
                      << "Neem cake @ 250kg/ha",
                         "Bio-agents application",
                         "Organic matter incorporation" >>,
                   cultural |->
                      << "Improve soil drainage",
                         "Avoid water stress",
                         "Remove infected plants" >>],
                economic_impact |->
                  "Can cause 10-60% yield loss depending on variety and conditions",
                stages_affected |-> << "seedling",
                                      "vegetative",
                                      "flowering" >>,
                geographic_distribution |-> "Cotton growing regions worldwide"]
          [] d = "onion_purple_blotch" ->
               [name |-> "Onion Purple Blotch",
                scientific_name |-> "Alternaria porri",
                crop |-> "onion",
                type |-> "fungal",
                severity |-> "medium",
                symptoms |->
                  << "Purple to brown lesions on leaves",
                     "Concentric rings in lesions",
                     "Tip dieback of leaves",
                     "Reduced bulb size and quality" >>,
                conditions |->
                  [temperature_range |-> "20-30 degC",
                   humidity |-> ">80%",
                   rainfall |-> "Moderate (5-10mm)",
                   favorable_conditions |-> "High humidity, leaf wetness, thrips damage"],
                prevention |->
                  << "Use disease-free seeds",
                     "Proper plant spacing",
                     "Control thrips population",
                     "Avoid excessive nitrogen",
                     "Crop rotation" >>,
                treatment |->
                  [chemical |->
                      << "Mancozeb 75% WP @ 2g/L",
                         "Chlorothalonil 75% WP @ 2g/L",
                         "Azoxystrobin 23% SC @ 1ml/L" >>,
                   organic |->
                      << "Neem oil @ 3-5ml/L",
                         "Copper sulfate @ 2g/L",
                         "Trichoderma spray" >>,
                   cultural |->
                      << "Improve air circulation",
                         "Remove infected plant debris",
                         "Avoid overhead irrigation" >>],
                economic_impact |->
                  "Can cause 20-40% yield loss in severe cases",
                stages_affected |-> << "vegetative",
                                      "bulb_development" >>,
                geographic_distribution |-> "Onion growing regions globally"]
          [] d = "sugarcane_red_rot" ->
               [name |-> "Sugarcane Red Rot",
                scientific_name |-> "Colletotrichum falcatum",
                crop |-> "sugarcane",
                type |-> "fungal",
                severity |-> "high",
                symptoms |->
                  << "Red discoloration of internal tissues",
                     "White patches with black dots on internodes",
                     "Hollow stems in advanced stages",
                     "Reduced sugar content" >>,
                conditions |->
                  [temperature_range |-> "25-35 degC",
                   humidity |-> ">60%",
                   rainfall |-> "High (>20mm)",
                   favorable_conditions |-> "Waterlogging, stem injuries, susceptible varieties"],
                prevention |->
                  << "Use resistant varieties",
                     "Plant disease-free setts",
                     "Proper drainage",
                     "Avoid mechanical injuries",
                     "Crop rotation" >>,
                treatment |->
                  [chemical |->
                      << "Carbendazim 50% WP @ 1g/L",
                         "Propiconazole 25% EC @ 1ml/L",
                         "Bordeaux mixture @ 1%" >>,
                   organic |->
                      << "Trichoderma treatment of setts",
                         "Neem oil spray",
                         "Pseudomonas application" >>,
                   cultural |->
                      << "Remove infected canes immediately",
                         "Improve field drainage",
                         "Avoid ratoon crops in infected fields" >>],
                economic_impact |->
                  "Can cause 25-80% sugar loss in severely infected canes",
                stages_affected |-> << "all_stages" >>,
                geographic_distribution |-> "Major sugarcane producing countries"] ]

DBIdle ==
    /\ disease_info = _initialize_disease_database
    /\ db_request = NoRequest
    /\ db_response = NoResponse

(***************************************************************************)
(* The rule engine behind its route                                        *)
(***************************************************************************)
MLIdle ==
    /\ image_classifier = "fitted"
    /\ weather_classifier = "fitted"
    /\ scaler_fitted = TRUE
    /\ ml_request = NoRequest
    /\ ml_response = NoResponse

Init ==
    /\ disease_models = _initialize_disease_models
    /\ request = NoRequest
    /\ response = NoResponse
    /\ MLIdle
    /\ DBIdle

\* a client posts a weather-risk request
SubmitWeatherRequest ==
    /\ request = NoRequest
    /\ request' \in WeatherRequests
    /\ response' = NoResponse
    /\ UNCHANGED <<disease_models, ml_vars, db_vars>>

\* the days the call draws a synthetic forecast for: the generator is reached
\* only for a crop with registered models
GeneratedDays(req) ==
    IF CropDiseases(disease_models, req.crop) = << >> THEN 0
    ELSE req.forecast_horizon_days

\* the route's answer to the request, for some outcome of the random draws
ServeRequest ==
    /\ \E draws \in DrawSeqs(GeneratedDays(request)) :
          response' = predict_disease_by_weather(disease_models, request, draws)
    /\ UNCHANGED <<disease_models, request, ml_vars, db_vars>>

\* the route serves the request
PredictDiseaseByWeather ==
    /\ request # NoRequest
    /\ response = NoResponse
    /\ ServeRequest

\* the client posts the same request again and the route serves it again
RepeatWeatherRequest ==
    /\ request # NoRequest
    /\ response # NoResponse
    /\ ServeRequest

\* the client has its answer
CompleteWeatherRequest ==
    /\ response # NoResponse
    /\ request' = NoRequest
    /\ response' = NoResponse
    /\ UNCHANGED <<disease_models, ml_vars, db_vars>>

Next ==
    \/ SubmitWeatherRequest
    \/ PredictDiseaseByWeather
    \/ RepeatWeatherRequest
    \/ CompleteWeatherRequest

Spec == Init /\ [][Next]_vars

(***************************************************************************)
(* The end-to-end scenarios: rice with a synthesized 7-day forecast, and a *)
(* crop with no registered model                                           *)
(***************************************************************************)
ScenarioRequests ==
    { [kind |-> "weather", crop |-> "rice", district |-> "pune",
       current_weather |-> [temperature |-> Num(25), humidity |-> h, rainfall |-> r,
                            forecast |-> Absent],
       forecast_horizon_days |-> 7] : h \in {Num(80), Num(90)}, r \in {Num(5), Num(15)} }
    \cup
    { [kind |-> "weather", crop |-> "unknown_crop", district |-> "pune",
       current_weather |-> [temperature |-> t, humidity |-> h, rainfall |-> r,
                            forecast |-> Absent],
       forecast_horizon_days |-> 7] :
         t \in {Absent, Num(22), Num(35)},
         h \in {Absent, Num(50), Num(80), Num(90)},
         r \in {Absent, Num(0), Num(5), Num(15)} }

\* a dry cold day, favorable for no disease of rice
DryColdDay == [temp_avg |-> Num(10), humidity_avg |-> Num(40), rainfall |-> Num(0)]

\* scenario 1 posted in the documented request format, with the forecast list
\* as a field of the request next to current_weather.  The request model of
\* the route declares crop, district, current_weather and
\* forecast_horizon_days only, so the route reads nothing else of the body.
ForecastScenarioRequests ==
    { [kind |-> "weather", crop |-> "rice", district |-> "pune",
       current_weather |-> [temperature |-> Num(25), humidity |-> Num(90),
                            rainfall |-> Num(15), forecast |-> Absent],
       forecast_horizon_days |-> 7,
       forecast |-> [k |-> "list", days |-> [i \in 1 .. 7 |-> DryColdDay]]] }

SubmitScenarioRequest ==
    /\ request = NoRequest
    /\ request' \in ScenarioRequests \cup ForecastScenarioRequests
    /\ response' = NoResponse
    /\ UNCHANGED <<disease_models, ml_vars, db_vars>>

NextScenarios ==
    \/ SubmitScenarioRequest
    \/ PredictDiseaseByWeather
    \/ CompleteWeatherRequest

SpecScenarios == Init /\ [][NextScenarios]_vars

(***************************************************************************)
(* Properties of the rule engine                                           *)
(***************************************************************************)
\* the request has been served with a list of risks
Served == request # NoRequest /\ response # NoResponse /\ response.kind = "ok"
Registered(crop) == CropDiseases(disease_models, crop) # << >>
Numeric(x) == x.k # "bad"
InRange(horizon) == 1 <= horizon /\ horizon <= 30

\* C1: in the list returned for a crop with registered disease models, an entry
\* whose risk level ranks higher stands before every entry whose level ranks
\* lower, whatever their days_until_expected, and of two entries of the same
\* level the one with the strictly smaller days_until_expected stands first.
C1_RankingInvariant ==
    (Served /\ Registered(request.crop)) =>
        \A i, j \in DOMAIN response.disease_risks :
            LET A == response.disease_risks[i]
                B == response.disease_risks[j]
            IN /\ RiskRank(A.risk_level) > RiskRank(B.risk_level) => i < j
               /\ (A.risk_level = B.risk_level
                   /\ A.days_until_expected < B.days_until_expected) => i < j

\* a list where an entry of a higher level and a later onset stands before an
\* entry of a lower level and an earlier onset
C1_Witness ==
    /\ Served /\ Registered(request.crop)
    /\ \E i, j \in DOMAIN response.disease_risks :
          /\ i < j
          /\ RiskRank(response.disease_risks[i].risk_level)
                > RiskRank(response.disease_risks[j].risk_level)
          /\ response.disease_risks[i].days_until_expected
                > response.disease_risks[j].days_until_expected

RiskLevels == {"negligible", "low", "medium", "high"}
InUnitInterval(confidence) == 0 <= confidence /\ confidence <= ConfScale

\* the current values _assess_disease_risk is called with
CurrentTemp(req) == DictGet(req.current_weather.temperature, Num(25))
CurrentHumidity(req) == DictGet(req.current_weather.humidity, Num(60))
CurrentRainfall(req) == DictGet(req.current_weather.rainfall, Num(0))
RequestDiseases == CropDiseases(disease_models, request.crop)

\* C2: for every disease model, numeric current weather, forecast and horizon
\* in 1..30, the assessment has a risk level among negligible, low, medium and
\* high and a confidence in [0,1]; and every entry of a returned list (scored,
\* error placeholder or generic) has a confidence in [0,1].
C2_LevelAndConfidenceInRange ==
    /\ (/\ request # NoRequest
        /\ InRange(request.forecast_horizon_days)
        /\ Numeric(CurrentTemp(request)) /\ Numeric(CurrentHumidity(request))
        /\ Numeric(CurrentRainfall(request)))
       => \A i \in DOMAIN RequestDiseases :
          \A draws \in DrawSeqs(request.forecast_horizon_days) :
             LET a == _assess_disease_risk(RequestDiseases[i], CurrentTemp(request),
                          CurrentHumidity(request), CurrentRainfall(request),
                          ForecastData(request.current_weather,
                              _generate_weather_forecast(request.current_weather,
                                  request.forecast_horizon_days, draws)),
                          request.forecast_horizon_days)
             IN a.risk_level \in RiskLevels /\ InUnitInterval(a.confidence)
    /\ Served => \A i \in DOMAIN response.disease_risks :
                    InUnitInterval(response.disease_risks[i].confidence)

\* a served list with a high entry while another disease of the crop was
\* assessed negligible and dropped
C2_Witness ==
    /\ Served /\ Registered(request.crop) /\ InRange(request.forecast_horizon_days)
    /\ Numeric(CurrentTemp(request)) /\ Numeric(CurrentHumidity(request))
    /\ Numeric(CurrentRainfall(request))
    /\ \E i \in DOMAIN response.disease_risks : response.disease_risks[i].risk_level = "high"
    /\ Len(response.disease_risks) < Len(RequestDiseases)

\* C3: when the request carries a forecast, serving the same request again
\* gives the same list again: the answer depends on no random draw and on no
\* state left by an earlier call.
C3_SuppliedForecastDeterministic ==
    [][(/\ request # NoRequest /\ request' = request
        /\ request.current_weather.forecast.k = "list"
        /\ response # NoResponse /\ response' # NoResponse)
       => response' = response]_vars

\* a request with a forecast list, served with several scored entries
C3_Witness ==
    /\ Served /\ Registered(request.crop)
    /\ request.current_weather.forecast.k = "list"
    /\ Len(request.current_weather.forecast.days) >= 1
    /\ request.forecast_horizon_days >= 1
    /\ Len(response.disease_risks) >= 2

\* negligible < low < medium < high
LevelOrdinal(risk_level) ==
    CASE risk_level = "negligible" -> 0
      [] risk_level = "low" -> 1
      [] risk_level = "medium" -> 2
      [] risk_level = "high" -> 3

\* the humidities the current humidity is raised to
HumidityProbes == {70, 75, 80, 85, 90, 95, 100}

\* the assessment of the request's i-th disease, with the current humidity h
AssessAtHumidity(i, h) ==
    _assess_disease_risk(RequestDiseases[i], CurrentTemp(request), Num(h),
        CurrentRainfall(request), request.current_weather.forecast,
        request.forecast_horizon_days)

\* C4: with the supplied forecast, the current temperature, the current
\* rainfall and the horizon fixed, raising the current humidity from a value
\* below a disease's humidity_min to a value at or above it lowers neither the
\* risk level nor the confidence, also when forecast days omit humidity_avg.
C4_HumidityMonotone ==
    (/\ request # NoRequest
     /\ request.current_weather.forecast.k = "list"
     /\ Numeric(CurrentTemp(request)) /\ Numeric(CurrentHumidity(request))
     /\ Numeric(CurrentRainfall(request)))
    => \A i \in DOMAIN RequestDiseases : \A hi \in HumidityProbes :
          (CurrentHumidity(request).v < RequestDiseases[i].humidity_min
           /\ RequestDiseases[i].humidity_min <= hi)
          => LET before == AssessAtHumidity(i, CurrentHumidity(request).v)
                 after == AssessAtHumidity(i, hi)
             IN /\ LevelOrdinal(after.risk_level) >= LevelOrdinal(before.risk_level)
                /\ after.confidence >= before.confidence

\* a served request whose forecast has a day without humidity_avg inside the
\* horizon, and a disease whose level rises with the humidity
C4_Witness ==
    /\ Served /\ Registered(request.crop)
    /\ request.current_weather.forecast.k = "list"
    /\ Numeric(CurrentTemp(request)) /\ Numeric(CurrentHumidity(request))
    /\ Numeric(CurrentRainfall(request))
    /\ \E d \in DOMAIN PySlice(request.current_weather.forecast.days,
                               request.forecast_horizon_days) :
          request.current_weather.forecast.days[d].humidity_avg = Absent
    /\ \E i \in DOMAIN RequestDiseases : \E hi \in HumidityProbes :
          /\ CurrentHumidity(request).v < RequestDiseases[i].humidity_min
          /\ RequestDiseases[i].humidity_min <= hi
          /\ LevelOrdinal(AssessAtHumidity(i, hi).risk_level)
                > LevelOrdinal(AssessAtHumidity(i, CurrentHumidity(request).v).risk_level)

\* scenario 1: rice, temperature 25, humidity 90, rainfall 15, horizon 7, no forecast
IsScenario1(req) ==
    /\ req # NoRequest
    /\ req.crop = "rice"
    /\ req.current_weather.temperature = Num(25)
    /\ req.current_weather.humidity = Num(90)
    /\ req.current_weather.rainfall = Num(15)
    /\ req.current_weather.forecast = Absent
    /\ req.forecast_horizon_days = 7

\* the list has an entry of the disease with one of the levels
HasEntry(list, disease, levels) ==
    \E i \in DOMAIN list : list[i].disease = disease /\ list[i].risk_level \in levels

\* C5 as claimed: scenario 1 returns an entry rice_blast with risk level high
\* in every execution.
C5_Scenario1AlwaysHigh ==
    (IsScenario1(request) /\ response # NoResponse)
    => (response.kind = "ok" /\ HasEntry(response.disease_risks, "rice_blast", {"high"}))

\* how many days of the forecast synthesized from the draws are favorable
FavorableDrawDays(m, req, draws) ==
    LET generated == _generate_weather_forecast(req.current_weather,
                         req.forecast_horizon_days, draws)
    IN Cardinality({ i \in DOMAIN generated.days :
           DayFavorable(m, generated.days[i], CurrentTemp(req), CurrentHumidity(req)) >= 2 })

\* C5 as amended: scenario 1 returns an entry rice_blast in every execution;
\* its risk level is high when at least 5 of the 7 synthesized forecast days
\* are favorable for blast, and medium otherwise.
C5_Scenario1MediumOrHigh ==
    /\ (IsScenario1(request) /\ response # NoResponse)
       => (response.kind = "ok"
           /\ HasEntry(response.disease_risks, "rice_blast", {"medium", "high"}))
    /\ (IsScenario1(request) /\ response = NoResponse)
       => \A draws \in DrawSeqs(request.forecast_horizon_days) :
             LET result == predict_disease_risk(disease_models, request.crop,
                               request.current_weather, request.forecast_horizon_days, draws)
                 blast == disease_models["rice"][1]
             IN /\ ~result.raised
                /\ HasEntry(result.value, "rice_blast",
                       IF FavorableDrawDays(blast, request, draws) >= 5
                       THEN {"high"} ELSE {"medium"})

\* an execution of scenario 1 that does return rice_blast as high
C5_Witness ==
    /\ IsScenario1(request) /\ Served
    /\ HasEntry(response.disease_risks, "rice_blast", {"high"})

\* how many of humidity > 70, rainfall > 2 and 20 <= temperature <= 30 hold
GenericCount(req) ==
    (IF CurrentHumidity(req).v > 70 THEN 1 ELSE 0)
    + (IF CurrentRainfall(req).v > 2 THEN 1 ELSE 0)
    + (IF 20 <= CurrentTemp(req).v /\ CurrentTemp(req).v <= 30 THEN 1 ELSE 0)

\* the list is the single entry of the level, with the days
SingleEntry(list, risk_level, days_until) ==
    /\ Len(list) = 1
    /\ list[1].risk_level = risk_level
    /\ list[1].days_until_expected = days_until

\* scenario 2: a crop with no model, humidity 50, temperature 22, rainfall 0
IsScenario2(req) ==
    /\ req # NoRequest
    /\ req.crop = "unknown_crop"
    /\ req.current_weather.humidity = Num(50)
    /\ req.current_weather.temperature = Num(22)
    /\ req.current_weather.rainfall = Num(0)

\* C6: for a crop with no registered model the result follows the count c of
\* the conditions humidity > 70, rainfall > 2 and 20 <= temperature <= 30, each
\* counted once: c = 3 a single high entry with 3 days, c = 2 a single medium
\* entry with 7, c = 1 a single low entry with 10, c = 0 the empty list; in
\* particular scenario 2 gives low with 10.
C6_GenericHeuristic ==
    (/\ request # NoRequest /\ ~Registered(request.crop) /\ response # NoResponse
     /\ Numeric(CurrentTemp(request)) /\ Numeric(CurrentHumidity(request))
     /\ Numeric(CurrentRainfall(request)))
    => /\ response.kind = "ok"
       /\ GenericCount(request) = 3 => SingleEntry(response.disease_risks, "high", 3)
       /\ GenericCount(request) = 2 => SingleEntry(response.disease_risks, "medium", 7)
       /\ GenericCount(request) = 1 => SingleEntry(response.disease_risks, "low", 10)
       /\ GenericCount(request) = 0 => response.disease_risks = << >>
       /\ IsScenario2(request) => SingleEntry(response.disease_risks, "low", 10)

\* scenario 2, served
C6_Witness ==
    /\ IsScenario2(request) /\ Served
    /\ SingleEntry(response.disease_risks, "low", 10)

\* the request gives each of temperature, humidity and rainfall as a number
\* or not at all
AbsentOrNumeric(req) ==
    /\ Numeric(req.current_weather.temperature)
    /\ Numeric(req.current_weather.humidity)
    /\ Numeric(req.current_weather.rainfall)

\* C7: for a crop with no registered model and a current weather whose
\* temperature, humidity and rainfall are each absent or numeric, the call
\* completes without raising and returns a list of zero or one entry.
C7_UnknownCropNeverFails ==
    (/\ request # NoRequest /\ ~Registered(request.crop) /\ AbsentOrNumeric(request)
     /\ response # NoResponse)
    => (response.kind = "ok" /\ Len(response.disease_risks) <= 1)

\* a crop with no model and no condition met, served with the empty list
C7_Witness ==
    /\ Served /\ ~Registered(request.crop) /\ AbsentOrNumeric(request)
    /\ InRange(request.forecast_horizon_days)
    /\ request.current_weather.humidity = Absent
    /\ response.disease_risks = << >>

\* the scoring of the request's diseases is reached and raises
ScoringRaises(req) ==
    /\ Registered(req.crop)
    /\ ~GenerateRaises(req.current_weather, req.forecast_horizon_days)
    /\ AssessRaises(CurrentTemp(req), CurrentHumidity(req), CurrentRainfall(req),
           ForecastData(req.current_weather, [k |-> "list", days |-> << >>]),
           req.forecast_horizon_days)

\* the entry is the error placeholder of the disease
IsPlaceholder(entry, disease) ==
    /\ entry.disease = disease
    /\ entry.risk_level = "low"
    /\ entry.days_until_expected = 7
    /\ entry.confidence * 10 = 3 * ConfScale
    /\ entry.environmental_triggers = << "Assessment error" >>

\* C8: when the scoring of a disease raises, the call still returns the list
\* of the crop's diseases: the failing disease is there with the placeholder
\* (low, 7 days, confidence 0.3, 'Assessment error'), no disease is missing, and
\* the list is not replaced by the generic result or by an error.
C8_FailureIsolated ==
    (request # NoRequest /\ response # NoResponse /\ ScoringRaises(request))
    => /\ response.kind = "ok"
       /\ Len(response.disease_risks) = Len(RequestDiseases)
       /\ \A i \in DOMAIN RequestDiseases :
             IsPlaceholder(response.disease_risks[i],
                           request.crop \o "_" \o RequestDiseases[i].name)

\* a request whose forecast has a null rainfall inside the horizon, served
C8_Witness ==
    /\ Served /\ ScoringRaises(request)
    /\ InRange(request.forecast_horizon_days)
    /\ request.current_weather.forecast.k = "list"
    /\ Numeric(CurrentRainfall(request))
    /\ Len(response.disease_risks) = 3

\* C9 as claimed: a request whose forecast_horizon_days is outside 1..30 is
\* rejected; no list of risks is computed and returned for it.
C9_OutOfRangeHorizonRejected ==
    (request # NoRequest /\ ~InRange(request.forecast_horizon_days)
     /\ response # NoResponse)
    => response.kind = "rejected"

(***************************************************************************)
(* DiseaseMLService: the two classifiers and the scaler                    *)
(*                                                                         *)
(* A classifier object is "fitted" (loaded from its file or trained) or    *)
(* "unfitted" (constructed and never fitted).  A probability is an integer *)
(* number of thousandths.  What a fitted random forest answers is an input *)
(* of the model: the three most probable classes, most probable first.     *)
(***************************************************************************)
\* what the constructor finds on disk and how training goes
ModelFileStates == {"missing", "loads", "corrupt"}
ImageTrainingOutcomes == {"ok", "fit_fails", "save_fails"}
WeatherTrainingOutcomes == {"ok", "scaler_fails", "fit_fails", "save_fails"}

Environments ==
    [image_file : ModelFileStates, weather_file : ModelFileStates,
     image_training : ImageTrainingOutcomes, weather_training : WeatherTrainingOutcomes]

MLState(image, weather, scaler) ==
    [image_classifier |-> image, weather_classifier |-> weather, scaler_fitted |-> scaler]

\* fit precedes the save of the model, so only a failure of fit leaves the
\* classifier unfitted; the exception is logged and swallowed
_train_image_classifier(outcome) ==
    IF outcome = "fit_fails" THEN "unfitted" ELSE "fitted"

\* scaler.fit_transform, then weather_classifier.fit, then the two saves
_train_weather_classifier(outcome) ==
    [classifier |-> IF outcome \in {"scaler_fails", "fit_fails"} THEN "unfitted" ELSE "fitted",
     scaler_fitted |-> outcome # "scaler_fails"]

\* the classifiers are loaded where a file exists and trained where none
\* does; the scaler is never loaded.  A load that raises ends in the except
\* branch, which replaces both classifiers by new, unfitted ones.
_initialize_ml_models(env) ==
    IF env.image_file = "corrupt" \/ env.weather_file = "corrupt"
    THEN MLState("unfitted", "unfitted", FALSE)
    ELSE LET image == IF env.image_file = "loads" THEN "fitted"
                      ELSE _train_image_classifier(env.image_training)
             trained == _train_weather_classifier(env.weather_training)
         IN IF env.weather_file = "loads"
            THEN MLState(image, "fitted", FALSE)
            ELSE MLState(image, trained.classifier, trained.scaler_fitted)

ClassProbability(disease, prob) == [disease |-> disease, prob |-> prob]

\* sorted_probs[:3] of a fitted classifier
ClassifierOutputs ==
    { << ClassProbability("blast", 900), ClassProbability("rust", 100),
         ClassProbability("blight", 0) >>,
      << ClassProbability("blast", 450), ClassProbability("rust", 300),
         ClassProbability("blight", 250) >>,
      << ClassProbability("rust", 250), ClassProbability("blast", 250),
         ClassProbability("blight", 200) >>,
      << ClassProbability("blast", 300), ClassProbability("rust", 250),
         ClassProbability("blight", 250) >> }

\* an unfitted classifier cannot predict: the test `not self.image_classifier`
\* or the call of predict raises, and the except branch answers "unknown"
_predict_disease_from_features(classifier, output) ==
    IF classifier # "fitted"
    THEN [disease |-> "unknown", confidence |-> 0, top_predictions |-> << >>]
    ELSE [disease |-> output[1].disease, confidence |-> output[1].prob,
          top_predictions |-> output]

(***************************************************************************)
(* DiseaseMLService.analyze_disease_image                                  *)
(*                                                                         *)
(* An image is what the analysis reads from it: the share of brown and of  *)
(* yellow pixels in percent, the variance of the Laplacian and the mean    *)
(* brightness.  Image data that does not decode is Undecodable.            *)
(***************************************************************************)
Undecodable == [kind |-> "undecodable"]

Image(brown, yellow, laplacian_var, brightness) ==
    [kind |-> "image", brown_coverage |-> brown, yellow_coverage |-> yellow,
     laplacian_var |-> laplacian_var, brightness |-> brightness]

\* None for data that is not a base64 image
_decode_base64_image(image_data) ==
    IF image_data.kind = "image" THEN image_data ELSE Undecodable

\* the thresholds taken as reached at 5% and at 10%
DiseaseIndicatorsInclusive(image) ==
    (IF image.brown_coverage >= 5 THEN << "brown_spots_detected" >> ELSE << >>)
    \o (IF image.yellow_coverage >= 5 THEN << "yellowing_detected" >> ELSE << >>)
    \o (IF image.brown_coverage + image.yellow_coverage >= 10
        THEN << "significant_discoloration" >> ELSE << >>)

DiseaseIndicators(image) ==
    (IF image.brown_coverage > 5 THEN << "brown_spots_detected" >> ELSE << >>)
    \o (IF image.yellow_coverage > 5 THEN << "yellowing_detected" >> ELSE << >>)
    \o (IF image.brown_coverage + image.yellow_coverage > 10
        THEN << "significant_discoloration" >> ELSE << >>)

_analyze_image_cv(image) ==
    [image_quality |->
        [sharpness |-> IF image.laplacian_var > 100 THEN "good" ELSE "poor",
         brightness |-> IF 50 < image.brightness /\ image.brightness < 200
                        THEN "good" ELSE "poor"],
     spot_analysis |->
        [brown_coverage |-> image.brown_coverage,
         yellow_coverage |-> image.yellow_coverage,
         total_coverage |-> image.brown_coverage + image.yellow_coverage],
     disease_indicators |-> DiseaseIndicators(image)]

Contains(list, x) == \E i \in DOMAIN list : list[i] = x

_generate_image_recommendations(disease, confidence, indicators, crop_type) ==
    (IF confidence > 700
     THEN << "High confidence disease detection", "Apply treatment for " \o disease,
             "Isolate affected plants" >>
     ELSE IF confidence > 400
          THEN << "Moderate confidence detection", "Improve air circulation" >>
          ELSE << "Low confidence detection" >>)
    \o (IF Contains(indicators, "brown_spots_detected")
        THEN << "Brown spots detected" >> ELSE << >>)
    \o (IF Contains(indicators, "yellowing_detected")
        THEN << "Yellowing detected" >> ELSE << >>)
    \o (IF Contains(indicators, "significant_discoloration")
        THEN << "Significant discoloration found" >> ELSE << >>)
    \o << "Ensure proper drainage", "Remove infected plant material",
          "Consult extension services" >>

\* the cut for a poor image taken before the indicators are added
CombinedConfidencePenaltyFirst(ml_prediction, cv_analysis) ==
    LET indicators == Len(cv_analysis.disease_indicators)
        cut == IF cv_analysis.image_quality.sharpness = "poor"
                  \/ cv_analysis.image_quality.brightness = "poor"
               THEN (ml_prediction.confidence * 8) \div 10
               ELSE ml_prediction.confidence
    IN IF indicators > 0 /\ ml_prediction.disease # "unknown"
       THEN Min(1000, cut + 100 * indicators)
       ELSE cut

\* the ML confidence, raised by 0.1 per indicator and cut to 0.8 of itself
\* for a poor image
CombinedConfidence(ml_prediction, cv_analysis) ==
    LET indicators == Len(cv_analysis.disease_indicators)
        boosted == IF indicators > 0 /\ ml_prediction.disease # "unknown"
                   THEN Min(1000, ml_prediction.confidence + 100 * indicators)
                   ELSE ml_prediction.confidence
    IN IF cv_analysis.image_quality.sharpness = "poor"
          \/ cv_analysis.image_quality.brightness = "poor"
       THEN (boosted * 8) \div 10
       ELSE boosted

PrimaryPrediction(ml_prediction, cv_analysis, crop_type, ml_confidence) ==
    IF ml_prediction.disease # "unknown" /\ ml_confidence > 300
    THEN << [disease |-> crop_type \o "_" \o ml_prediction.disease,
             confidence |-> ml_confidence,
             detection_method |-> "ML + Computer Vision",
             symptoms_detected |-> cv_analysis.disease_indicators] >>
    ELSE << >>

AlternativePredictions(ml_prediction, crop_type) ==
    LET top == PySlice(ml_prediction.top_predictions, 2)
        kept == SelectSeq(top, LAMBDA t : t.disease # ml_prediction.disease /\ t.prob > 200)
    IN [i \in DOMAIN kept |->
           [disease |-> crop_type \o "_" \o kept[i].disease,
            confidence |-> kept[i].prob,
            detection_method |-> "ML Analysis",
            symptoms_detected |-> << >>]]

_combine_predictions(ml_prediction, cv_analysis, crop_type) ==
    LET ml_confidence == CombinedConfidence(ml_prediction, cv_analysis)
    IN [diseases |-> PrimaryPrediction(ml_prediction, cv_analysis, crop_type, ml_confidence)
                     \o AlternativePredictions(ml_prediction, crop_type),
        confidence |-> ml_confidence,
        recommendations |-> _generate_image_recommendations(ml_prediction.disease,
                                ml_confidence, cv_analysis.disease_indicators, crop_type)]

analyze_disease_image(classifier, image_data, crop_type, output) ==
    LET image == _decode_base64_image(image_data)
        ml_prediction == _predict_disease_from_features(classifier, output)
        cv_analysis == _analyze_image_cv(image)
        combined_result == _combine_predictions(ml_prediction, cv_analysis, crop_type)
    IN IF image = Undecodable
       THEN [error |-> "Invalid image data"]
       ELSE [status |-> "success",
             crop_type |-> crop_type,
             disease_predictions |-> combined_result.diseases,
             confidence |-> combined_result.confidence,
             recommendations |-> combined_result.recommendations,
             image_quality |-> cv_analysis.image_quality]

(***************************************************************************)
(* DiseaseMLService.predict_weather_disease_risk                           *)
(***************************************************************************)
\* `not self.weather_classifier` is true of None and raises for a forest
\* that was never fitted (its length is the number of fitted estimators);
\* the scaler raises in transform when it was never fitted
predict_weather_disease_risk(classifier, scaler, weather_data, crop_type, output) ==
    IF classifier = "none" THEN [error |-> "Weather classifier not available"]
    ELSE IF classifier # "fitted" THEN [error |-> "no attribute 'estimators_'"]
    ELSE IF ~scaler THEN [error |-> "StandardScaler instance is not fitted yet"]
    ELSE [status |-> "success",
          predicted_disease |-> output[1].disease,
          confidence |-> output[1].prob,
          top_risks |-> output,
          weather_conditions |-> weather_data,
          crop_type |-> crop_type]

(***************************************************************************)
(* The routes POST /analyze/image and POST /predict/weather-ml             *)
(***************************************************************************)
HTTPException(code, detail) ==
    [kind |-> "rejected", status_code |-> code, detail |-> detail]

\* the error field of the result ignored: every result is returned as it is
AnswerWithoutErrorCheck(result) ==
    [kind |-> "ok", body |-> result]

Answer(result) ==
    IF "error" \in DOMAIN result
    THEN HTTPException(400, result.error)
    ELSE [kind |-> "ok", body |-> result]

route_analyze_disease_image(classifier, req, output) ==
    Answer(analyze_disease_image(classifier, req.image_data, req.crop_type, output))

predict_disease_by_weather_ml(classifier, scaler, req, output) ==
    Answer(predict_weather_disease_risk(classifier, scaler, req.weather_data,
                                        req.crop_type, output))

(***************************************************************************)
(* The ML service as a state machine                                       *)
(***************************************************************************)
ImageInputs ==
    {Undecodable} \cup
    { Image(brown, yellow, laplacian_var, brightness) :
        brown \in {3, 5, 8}, yellow \in {3, 5, 8},
        laplacian_var \in {100, 150}, brightness \in {50, 120, 200} }

ImageAnalysisRequests ==
    [kind : {"image"}, image_data : ImageInputs, crop_type : {"rice"}]

WeatherDataInputs ==
    { [temperature |-> Num(25), humidity |-> Num(90), rainfall |-> Num(15)],
      [temperature |-> Absent, humidity |-> Absent, rainfall |-> Absent] }

MLWeatherPredictionRequests ==
    [kind : {"weather_ml"}, weather_data : WeatherDataInputs, crop_type : {"general"}]

RiskIdle ==
    /\ disease_models = _initialize_disease_models
    /\ request = NoRequest
    /\ response = NoResponse

InitML ==
    /\ RiskIdle
    /\ DBIdle
    /\ \E env \in Environments :
          LET state == _initialize_ml_models(env)
          IN /\ image_classifier = state.image_classifier
             /\ weather_classifier = state.weather_classifier
             /\ scaler_fitted = state.scaler_fitted
    /\ ml_request = NoRequest
    /\ ml_response = NoResponse

SubmitImageRequest ==
    /\ ml_request = NoRequest
    /\ \E req \in ImageAnalysisRequests : ml_request' = req
    /\ UNCHANGED <<risk_vars, db_vars, image_classifier, weather_classifier, scaler_fitted, ml_response>>

SubmitMLWeatherRequest ==
    /\ ml_request = NoRequest
    /\ \E req \in MLWeatherPredictionRequests : ml_request' = req
    /\ UNCHANGED <<risk_vars, db_vars, image_classifier, weather_classifier, scaler_fitted, ml_response>>

AnalyzeDiseaseImage ==
    /\ ml_request.kind = "image"
    /\ ml_response = NoResponse
    /\ \E output \in ClassifierOutputs :
          ml_response' = route_analyze_disease_image(image_classifier, ml_request, output)
    /\ UNCHANGED <<risk_vars, db_vars, image_classifier, weather_classifier, scaler_fitted, ml_request>>

PredictDiseaseByWeatherML ==
    /\ ml_request.kind = "weather_ml"
    /\ ml_response = NoResponse
    /\ \E output \in ClassifierOutputs :
          ml_response' = predict_disease_by_weather_ml(weather_classifier, scaler_fitted,
                                                       ml_request, output)
    /\ UNCHANGED <<risk_vars, db_vars, image_classifier, weather_classifier, scaler_fitted, ml_request>>

CompleteMLRequest ==
    /\ ml_response # NoResponse
    /\ ml_request' = NoRequest
    /\ ml_response' = NoResponse
    /\ UNCHANGED <<risk_vars, db_vars, image_classifier, weather_classifier, scaler_fitted>>

NextML ==
    \/ SubmitImageRequest
    \/ SubmitMLWeatherRequest
    \/ AnalyzeDiseaseImage
    \/ PredictDiseaseByWeatherML
    \/ CompleteMLRequest

SpecML == InitML /\ [][NextML]_vars

(***************************************************************************)
(* Properties of the ML service                                            *)
(***************************************************************************)
MLServed == ml_request # NoRequest /\ ml_response # NoResponse

\* the classifier the pending operation needs is not usable
NeededClassifierUnavailable ==
    \/ ml_request.kind = "image" /\ image_classifier # "fitted"
    \/ ml_request.kind = "weather_ml"
       /\ (weather_classifier # "fitted" \/ ~scaler_fitted)

\* C10 as claimed: an operation whose classifier is not available answers
\* with an error or unavailable status, never with status success.
C10_UnavailableClassifierNotSuccess ==
    (MLServed /\ NeededClassifierUnavailable)
    => ~(ml_response.kind = "ok" /\ ml_response.body.status = "success")

UndecodableServed ==
    MLServed /\ ml_request.kind = "image" /\ ml_request.image_data = Undecodable

\* C11: image data that cannot be decoded gives a result with an error field
\* and no disease predictions, whatever the classifier is or would answer,
\* and the route /analyze/image turns it into HTTP 400.
C11_UndecodableImageRejected ==
    UndecodableServed
    => /\ ml_response = HTTPException(400, "Invalid image data")
       /\ \A classifier \in {"fitted", "unfitted"}, output \in ClassifierOutputs :
             LET result == analyze_disease_image(classifier, ml_request.image_data,
                                                 ml_request.crop_type, output)
             IN /\ DOMAIN result = {"error"}
                /\ result.error = "Invalid image data"

\* an undecodable image was submitted and answered
C11_Witness ==
    UndecodableServed /\ ml_response.kind = "rejected" /\ ml_response.status_code = 400

\* C12 as claimed: for a horizon h in 1..30 every returned entry, scored,
\* placeholder or generic, has 1 <= days_until_expected <= h.
C12_DaysUntilWithinHorizon ==
    (Served /\ InRange(request.forecast_horizon_days) /\ response.kind = "ok")
    => \A i \in DOMAIN response.disease_risks :
          /\ response.disease_risks[i].days_until_expected \in Int
          /\ 1 <= response.disease_risks[i].days_until_expected
          /\ response.disease_risks[i].days_until_expected <= request.forecast_horizon_days

\* the forecast list the caller supplied with the request, if any
SuppliedForecast(req) ==
    IF "forecast" \in DOMAIN req THEN req.forecast ELSE req.current_weather.forecast

\* what scoring the supplied forecast gives; no draw is used for it
ScoredOnSupplied(req) ==
    predict_disease_risk(disease_models, req.crop,
        [req.current_weather EXCEPT !.forecast = SuppliedForecast(req)],
        req.forecast_horizon_days,
        [i \in 1 .. Max(req.forecast_horizon_days, 0) |-> CHOOSE d \in SynthDraws : TRUE])

\* C13 as claimed: a forecast list supplied in the weather-risk request is the
\* forecast scored for every disease; the synthesized one plays no part.
C13_SuppliedForecastScored ==
    (Served /\ response.kind = "ok" /\ Registered(request.crop)
     /\ SuppliedForecast(request).k = "list")
    => response.disease_risks = ScoredOnSupplied(request).value

(***************************************************************************)
(* Strings and dicts as DiseaseDatabase uses them                          *)
(***************************************************************************)
UpperCase == "ABCDEFGHIJKLMNOPQRSTUVWXYZ"
LowerCase == "abcdefghijklmnopqrstuvwxyz"

CharLower(c) ==
    IF \E i \in 1 .. Len(UpperCase) : SubSeq(UpperCase, i, i) = c
    THEN LET i == CHOOSE i \in 1 .. Len(UpperCase) : SubSeq(UpperCase, i, i) = c
         IN SubSeq(LowerCase, i, i)
    ELSE c

RECURSIVE StrLower(_)
\* str.lower()
StrLower(str) ==
    IF str = "" THEN ""
    ELSE CharLower(SubSeq(str, 1, 1)) \o StrLower(SubSeq(str, 2, Len(str)))

RECURSIVE StrReplaceSpaces(_)
\* str.replace(' ', '_')
StrReplaceSpaces(str) ==
    IF str = "" THEN ""
    ELSE (IF SubSeq(str, 1, 1) = " " THEN "_" ELSE SubSeq(str, 1, 1))
         \o StrReplaceSpaces(SubSeq(str, 2, Len(str)))

\* needle in hay
StrIn(needle, hay) ==
    \E i \in 0 .. (Len(hay) - Len(needle)) : SubSeq(hay, i + 1, i + Len(needle)) = needle

None == [none |-> TRUE]

\* the dict of the table itself, as a plain assignment would give it
DictAlias(dict) == [shared |-> TRUE, items |-> dict]

\* dict.copy(): a new dict with the same items, not the dict of the table
DictCopy(dict) == [shared |-> FALSE, items |-> dict]

\* obj[key] = value
SetItem(obj, key, value) ==
    [obj EXCEPT !.items = [k \in DOMAIN obj.items \cup {key} |->
                              IF k = key THEN value ELSE obj.items[k]]]

\* the table once obj, made from the table's record of id, has been written to
TableAfter(table, id, obj) ==
    IF obj.shared THEN [table EXCEPT ![id] = obj.items] ELSE table

\* the result of an operation and the table it leaves
DBResult(value, table) == [value |-> value, table |-> table]

(***************************************************************************)
(* DiseaseDatabase.get_disease_info, search_diseases_by_crop,               *)
(* search_diseases_by_symptoms                                             *)
(***************************************************************************)
\* the record of the table itself, or None
get_disease_info(table, disease_id) ==
    LET key == StrReplaceSpaces(StrLower(disease_id))
    IN IF key \in DOMAIN table THEN table[key] ELSE None

RECURSIVE CropScan(_, _, _)
\* the loop of search_diseases_by_crop from the i-th id on
CropScan(table, crop, i) ==
    IF i > Len(DiseaseIds) THEN DBResult(<< >>, table)
    ELSE LET disease_id == DiseaseIds[i]
             disease_data == table[disease_id]
         IN IF StrLower(disease_data.crop) = StrLower(crop)
            THEN LET disease_info_copy == SetItem(DictCopy(disease_data), "id", disease_id)
                     rest == CropScan(TableAfter(table, disease_id, disease_info_copy),
                                      crop, i + 1)
                 IN DBResult(<< disease_info_copy.items >> \o rest.value, rest.table)
            ELSE CropScan(table, crop, i + 1)

\* the scan started behind the first id of the table
SearchByCropBehindFirst(table, crop) == CropScan(table, crop, 2)

search_diseases_by_crop(table, crop) == CropScan(table, crop, 1)

\* how many of the queried symptoms occur in one of the disease's symptoms
SymptomMatches(disease_data, symptoms) ==
    Cardinality({ i \in DOMAIN symptoms :
        \E j \in DOMAIN disease_data.symptoms :
            StrIn(StrLower(symptoms[i]), StrLower(disease_data.symptoms[j])) })

\* matches / len(symptoms), kept as the fraction
MatchScore(matches, symptoms) == [num |-> matches, den |-> Len(symptoms)]

ScoreLess(a, b) == a.num * b.den < b.num * a.den

RECURSIVE SymptomScan(_, _, _)
\* the loop of search_diseases_by_symptoms from the i-th id on
SymptomScan(table, symptoms, i) ==
    IF i > Len(DiseaseIds) THEN DBResult(<< >>, table)
    ELSE LET disease_id == DiseaseIds[i]
             disease_data == table[disease_id]
             matches == SymptomMatches(disease_data, symptoms)
         IN IF matches > 0
            THEN LET with_id == SetItem(DictCopy(disease_data), "id", disease_id)
                     with_score == SetItem(with_id, "match_score",
                                           MatchScore(matches, symptoms))
                     rest == SymptomScan(TableAfter(table, disease_id, with_score),
                                         symptoms, i + 1)
                 IN DBResult(<< with_score.items >> \o rest.value, rest.table)
            ELSE SymptomScan(table, symptoms, i + 1)

\* the entry put behind the entries of the sorted list whose score is not less
InsertByScoreAscending(sorted, entry) ==
    LET before == { i \in 0 .. Len(sorted) :
                      \A j \in 1 .. i : ~ScoreLess(entry.match_score, sorted[j].match_score) }
        i == CHOOSE i \in before : \A k \in before : k <= i
    IN SubSeq(sorted, 1, i) \o << entry >> \o SubSeq(sorted, i + 1, Len(sorted))

InsertByScore(sorted, entry) ==
    LET before == { i \in 0 .. Len(sorted) :
                      \A j \in 1 .. i : ~ScoreLess(sorted[j].match_score, entry.match_score) }
        i == CHOOSE i \in before : \A k \in before : k <= i
    IN SubSeq(sorted, 1, i) \o << entry >> \o SubSeq(sorted, i + 1, Len(sorted))

RECURSIVE SortByScore(_)
\* list.sort(key=match_score, reverse=True): stable, highest score first
SortByScore(list) ==
    IF list = << >> THEN << >>
    ELSE InsertByScore(SortByScore(SubSeq(list, 1, Len(list) - 1)), list[Len(list)])

search_diseases_by_symptoms(table, symptoms) ==
    LET scan == SymptomScan(table, symptoms, 1)
    IN DBResult(SortByScore(scan.value), scan.table)

(***************************************************************************)
(* DiseaseDatabase.get_treatment_recommendations                           *)
(***************************************************************************)
\* a severity that is neither high nor low taken for medium
ImmediateActionsElseMedium(severity) ==
    IF severity = "high"
    THEN << "Isolate affected plants immediately",
            "Apply emergency treatment within 24 hours",
            "Monitor spread to adjacent plants",
            "Consider destroying severely infected plants" >>
    ELSE IF severity = "low"
    THEN << "Monitor closely for disease progression",
            "Implement preventive measures",
            "Maintain good plant hygiene",
            "Consider preventive treatments" >>
    ELSE << "Begin treatment within 48 hours",
            "Monitor disease progression",
            "Improve environmental conditions",
            "Remove infected plant parts" >>

ImmediateActions(severity) ==
    IF severity = "high"
    THEN << "Isolate affected plants immediately",
            "Apply emergency treatment within 24 hours",
            "Monitor spread to adjacent plants",
            "Consider destroying severely infected plants" >>
    ELSE IF severity = "medium"
    THEN << "Begin treatment within 48 hours",
            "Monitor disease progression",
            "Improve environmental conditions",
            "Remove infected plant parts" >>
    ELSE << "Monitor closely for disease progression",
            "Implement preventive measures",
            "Maintain good plant hygiene",
            "Consider preventive treatments" >>

get_treatment_recommendations(table, disease_id, severity, organic_preference) ==
    LET disease_data == get_disease_info(table, disease_id)
    IN IF disease_data = None
       THEN DBResult([error |-> "Disease not found"], table)
       ELSE DBResult(
              [disease |-> disease_data.name,
               severity_assessed |-> severity,
               immediate_actions |-> ImmediateActions(severity),
               chemical_treatments |-> disease_data.treatment.chemical,
               organic_treatments |-> disease_data.treatment.organic,
               cultural_practices |-> disease_data.treatment.cultural,
               prevention_future |-> disease_data.prevention,
               priority_treatments |->
                   IF organic_preference THEN disease_data.treatment.organic
                   ELSE disease_data.treatment.chemical,
               alternative_treatments |->
                   IF organic_preference THEN disease_data.treatment.chemical
                   ELSE disease_data.treatment.organic],
              table)

(***************************************************************************)
(* DiseaseDatabase.get_prevention_guide and _get_critical_periods          *)
(*                                                                         *)
(* list(set(...)) has no order the code fixes: the measures of a category  *)
(* are kept as a set.                                                      *)
(***************************************************************************)
Elements(list) == { list[i] : i \in DOMAIN list }

AnyWordIn(words, text) == \E w \in words : StrIn(w, StrLower(text))

VarietyWords == {"resistant", "variety"}
FieldWords == {"spacing", "drainage", "irrigation", "rotation"}
NutritionWords == {"fertiliz", "nutrition", "nitrogen"}
SanitationWords == {"debris", "clean", "remove", "destroy"}

\* stage -> the names of the diseases that affect it, in the order met
_get_critical_periods(diseases) ==
    LET stages == UNION { Elements(diseases[i].stages_affected) : i \in DOMAIN diseases }
        affected == [stage \in stages |->
                        SelectSeq(diseases, LAMBDA d : stage \in Elements(d.stages_affected))]
    IN [stage \in stages |-> [i \in DOMAIN affected[stage] |-> affected[stage][i].name]]

get_prevention_guide(table, crop) ==
    LET search == search_diseases_by_crop(table, crop)
        crop_diseases == search.value
        unique_prevention == UNION { Elements(crop_diseases[i].prevention) :
                                       i \in DOMAIN crop_diseases }
        major == SelectSeq(crop_diseases, LAMBDA d : d.severity = "high")
    IN IF crop_diseases = << >>
       THEN DBResult([error |-> "No disease information found for " \o crop], search.table)
       ELSE DBResult(
              [crop |-> crop,
               total_diseases |-> Len(crop_diseases),
               major_diseases |-> [i \in DOMAIN major |-> major[i].name],
               general_prevention |->
                  [variety_selection |-> { p \in unique_prevention : AnyWordIn(VarietyWords, p) },
                   field_management |-> { p \in unique_prevention : AnyWordIn(FieldWords, p) },
                   nutrition |-> { p \in unique_prevention : AnyWordIn(NutritionWords, p) },
                   sanitation |-> { p \in unique_prevention : AnyWordIn(SanitationWords, p) },
                   other |-> { p \in unique_prevention :
                                 ~AnyWordIn(VarietyWords \cup FieldWords \cup NutritionWords
                                            \cup SanitationWords, p) }],
               critical_periods |-> _get_critical_periods(crop_diseases)],
              search.table)

(***************************************************************************)
(* DiseaseDatabase.get_disease_calendar                                    *)
(***************************************************************************)
Seasons(disease) ==
    LET conditions == disease.conditions
    IN IF StrIn("high", StrLower(conditions.rainfall)) \/ StrIn(">10", conditions.rainfall)
       THEN {"monsoon"}
       ELSE IF StrIn("cool", StrLower(conditions.favorable_conditions))
               \/ StrIn("15-25", conditions.temperature_range)
       THEN {"winter"}
       ELSE IF StrIn("hot", StrLower(conditions.favorable_conditions))
               \/ StrIn("28-35", conditions.temperature_range)
       THEN {"summer"}
       ELSE {"spring", "post_monsoon"}

DiseaseEntry(disease) ==
    [disease |-> disease.name,
     severity |-> disease.severity,
     key_conditions |-> "Temp: " \o disease.conditions.temperature_range
                        \o ", Humidity: " \o disease.conditions.humidity
                        \o ", Rainfall: " \o disease.conditions.rainfall]

SeasonLabels == {"spring", "summer", "monsoon", "post_monsoon", "winter"}

\* a calendar that files each disease under one label only, the first of
\* spring and post_monsoon for a disease that matches no check
CalendarOfOneLabel(table, crop, region) ==
    LET search == search_diseases_by_crop(table, crop)
        crop_diseases == search.value
    IN IF crop_diseases = << >>
       THEN DBResult([error |-> "No disease information found for " \o crop], search.table)
       ELSE DBResult(
              [crop |-> crop,
               region |-> region,
               seasonal_disease_calendar |->
                  [season \in SeasonLabels |->
                      LET placed == SelectSeq(crop_diseases,
                                        LAMBDA d : season \in Seasons(d) \ {"post_monsoon"})
                      IN [i \in DOMAIN placed |-> DiseaseEntry(placed[i])]]],
              search.table)

get_disease_calendar(table, crop, region) ==
    LET search == search_diseases_by_crop(table, crop)
        crop_diseases == search.value
    IN IF crop_diseases = << >>
       THEN DBResult([error |-> "No disease information found for " \o crop], search.table)
       ELSE DBResult(
              [crop |-> crop,
               region |-> region,
               seasonal_disease_calendar |->
                  [season \in SeasonLabels |->
                      LET placed == SelectSeq(crop_diseases, LAMBDA d : season \in Seasons(d))
                      IN [i \in DOMAIN placed |-> DiseaseEntry(placed[i])]]],
              search.table)

(***************************************************************************)
(* DiseaseDatabase.get_economic_impact_analysis                            *)
(***************************************************************************)
RECURSIVE StrSplit(_)
\* str.split(): the runs of characters between blanks
StrSplit(str) ==
    IF str = "" THEN << >>
    ELSE IF SubSeq(str, 1, 1) = " " THEN StrSplit(SubSeq(str, 2, Len(str)))
    ELSE LET n == CHOOSE n \in 1 .. Len(str) :
                     /\ \A i \in 1 .. n : SubSeq(str, i, i) # " "
                     /\ n = Len(str) \/ SubSeq(str, n + 1, n + 1) = " "
         IN << SubSeq(str, 1, n) >> \o StrSplit(SubSeq(str, n + 1, Len(str)))

RECURSIVE StrStripPercent(_)
\* str.strip('%')
StrStripPercent(str) ==
    IF str = "" THEN ""
    ELSE IF SubSeq(str, 1, 1) = "%" THEN StrStripPercent(SubSeq(str, 2, Len(str)))
    ELSE IF SubSeq(str, Len(str), Len(str)) = "%"
         THEN StrStripPercent(SubSeq(str, 1, Len(str) - 1))
    ELSE str

Digits == "0123456789"

IsDigit(c) == \E i \in 1 .. 10 : SubSeq(Digits, i, i) = c

DigitValue(c) == (CHOOSE i \in 1 .. 10 : SubSeq(Digits, i, i) = c) - 1

\* whether int(str) returns: a run of digits, possibly behind a sign
IntParses(str) ==
    LET body == IF str # "" /\ SubSeq(str, 1, 1) \in {"+", "-"}
                THEN SubSeq(str, 2, Len(str)) ELSE str
    IN body # "" /\ \A i \in 1 .. Len(body) : IsDigit(SubSeq(body, i, i))

RECURSIVE DigitsValue(_)
DigitsValue(str) ==
    IF str = "" THEN 0
    ELSE 10 * DigitsValue(SubSeq(str, 1, Len(str) - 1))
         + DigitValue(SubSeq(str, Len(str), Len(str)))

\* int(str) for a str that parses
IntOf(str) ==
    IF SubSeq(str, 1, 1) = "-" THEN 0 - DigitsValue(SubSeq(str, 2, Len(str)))
    ELSE IF SubSeq(str, 1, 1) = "+" THEN DigitsValue(SubSeq(str, 2, Len(str)))
    ELSE DigitsValue(str)

\* what the impact text adds to total_potential_loss: the first of its
\* tokens with a '%', when every such token is an integer once stripped;
\* nothing when one of them is not (the exception is swallowed)
PotentialLoss(impact) ==
    LET tokens == SelectSeq(StrSplit(impact), LAMBDA x : StrIn("%", x))
    IN IF tokens # << >>
          /\ \A i \in DOMAIN tokens : IntParses(StrStripPercent(tokens[i]))
       THEN IntOf(StrStripPercent(tokens[1]))
       ELSE 0

RECURSIVE SumLoss(_)
SumLoss(found) ==
    IF found = << >> THEN 0
    ELSE PotentialLoss(found[1].economic_impact) + SumLoss(Tail(found))

get_economic_impact_analysis(table, disease_ids) ==
    LET looked_up == [i \in DOMAIN disease_ids |-> get_disease_info(table, disease_ids[i])]
        found == SelectSeq(looked_up, LAMBDA d : d # None)
        high_risk_diseases == Len(SelectSeq(found, LAMBDA d : d.severity = "high"))
    IN IF disease_ids = << >>
       THEN DBResult([error |-> "No diseases specified"], table)
       ELSE DBResult(
              [analyzed_diseases |-> Len(found),
               high_severity_diseases |-> high_risk_diseases,
               disease_impacts |->
                  [i \in DOMAIN found |->
                      [disease |-> found[i].name, crop |-> found[i].crop,
                       severity |-> found[i].severity,
                       economic_impact |-> found[i].economic_impact]],
               risk_assessment |->
                  IF high_risk_diseases > 2 THEN "High"
                  ELSE IF high_risk_diseases > 0 THEN "Medium" ELSE "Low",
               management_priority |->
                  IF high_risk_diseases > 2 THEN "Immediate action required"
                  ELSE "Regular monitoring needed",
               estimated_max_loss_potential |->
                  "Up to " \o ToString(Min(SumLoss(found), 100)) \o "% if left untreated"],
              table)

(***************************************************************************)
(* The catalog as a state machine: one request at a time is posted, served *)
(* by its operation and completed                                          *)
(***************************************************************************)
DiseaseIdInputs == {"rice_blast", "Wheat Rust", "potato_scab"}
CatalogCropInputs == {"rice", "Wheat", "cotton", "maize"}
SymptomInputs == {"lesions", "Brown", "rot", "SPOTS", "mosaic"}
SymptomLists == UNION { [1 .. n -> SymptomInputs] : n \in 0 .. MaxSymptoms }
SeverityInputs == {"high", "medium", "low", "severe"}
DiseaseIdLists ==
    { << >>, << "rice_blast" >>, << "potato_scab", "rice_brown_spot" >>,
      << "rice_blast", "wheat_rust", "tomato_blight" >> }

CatalogRequests ==
    [kind : {"get_disease_info"}, disease_id : DiseaseIdInputs]
    \cup [kind : {"search_diseases_by_crop"}, crop : CatalogCropInputs]
    \cup [kind : {"search_diseases_by_symptoms"}, symptoms : SymptomLists]
    \cup [kind : {"get_treatment_recommendations"}, disease_id : DiseaseIdInputs,
          severity : SeverityInputs, organic_preference : BOOLEAN]
    \cup [kind : {"get_prevention_guide"}, crop : CatalogCropInputs]
    \cup [kind : {"get_disease_calendar"}, crop : CatalogCropInputs, region : {"general"}]
    \cup [kind : {"get_economic_impact_analysis"}, disease_ids : DiseaseIdLists]

SubmitCatalogRequest ==
    /\ db_request = NoRequest
    /\ db_request' \in CatalogRequests
    /\ UNCHANGED <<risk_vars, ml_vars, disease_info, db_response>>

\* the operation returns and leaves the table it leaves
Return(kind, result) ==
    /\ db_request.kind = kind
    /\ db_response = NoResponse
    /\ db_response' = [kind |-> "returned", value |-> result.value]
    /\ disease_info' = result.table
    /\ UNCHANGED <<risk_vars, ml_vars, db_request>>

GetDiseaseInfo ==
    /\ db_request.kind = "get_disease_info"
    /\ Return("get_disease_info",
              DBResult(get_disease_info(disease_info, db_request.disease_id), disease_info))

SearchDiseasesByCrop ==
    /\ db_request.kind = "search_diseases_by_crop"
    /\ Return("search_diseases_by_crop",
              search_diseases_by_crop(disease_info, db_request.crop))

SearchDiseasesBySymptoms ==
    /\ db_request.kind = "search_diseases_by_symptoms"
    /\ Return("search_diseases_by_symptoms",
              search_diseases_by_symptoms(disease_info, db_request.symptoms))

GetTreatmentRecommendations ==
    /\ db_request.kind = "get_treatment_recommendations"
    /\ Return("get_treatment_recommendations",
              get_treatment_recommendations(disease_info, db_request.disease_id,
                  db_request.severity, db_request.organic_preference))

GetPreventionGuide ==
    /\ db_request.kind = "get_prevention_guide"
    /\ Return("get_prevention_guide", get_prevention_guide(disease_info, db_request.crop))

GetDiseaseCalendar ==
    /\ db_request.kind = "get_disease_calendar"
    /\ Return("get_disease_calendar",
              get_disease_calendar(disease_info, db_request.crop, db_request.region))

GetEconomicImpactAnalysis ==
    /\ db_request.kind = "get_economic_impact_analysis"
    /\ Return("get_economic_impact_analysis",
              get_economic_impact_analysis(disease_info, db_request.disease_ids))

CompleteCatalogRequest ==
    /\ db_response # NoResponse
    /\ db_request' = NoRequest
    /\ db_response' = NoResponse
    /\ UNCHANGED <<risk_vars, ml_vars, disease_info>>

NextCatalog ==
    \/ SubmitCatalogRequest
    \/ GetDiseaseInfo
    \/ SearchDiseasesByCrop
    \/ SearchDiseasesBySymptoms
    \/ GetTreatmentRecommendations
    \/ GetPreventionGuide
    \/ GetDiseaseCalendar
    \/ GetEconomicImpactAnalysis
    \/ CompleteCatalogRequest

SpecCatalog == Init /\ [][NextCatalog]_vars

(***************************************************************************)
(* Properties of the catalog                                               *)
(***************************************************************************)
CatalogServed(kind) ==
    db_request # NoRequest /\ db_request.kind = kind /\ db_response # NoResponse

\* the queried symptom occurs, whatever the case, in a symptom of the disease
SymptomOccurs(symptom, disease_id) ==
    \E j \in DOMAIN _initialize_disease_database[disease_id].symptoms :
        StrIn(StrLower(symptom), StrLower(_initialize_disease_database[disease_id].symptoms[j]))

MatchedCount(symptoms, disease_id) ==
    Cardinality({ i \in DOMAIN symptoms : SymptomOccurs(symptoms[i], disease_id) })

\* C14: search_diseases_by_symptoms returns exactly the diseases of the catalog
\* in which a queried symptom occurs, each once, each with match_score =
\* matched queried symptoms / queried symptoms, in (0, 1], highest score first.
C14_SymptomSearch ==
    CatalogServed("search_diseases_by_symptoms")
    => LET found == db_response.value
           symptoms == db_request.symptoms
       IN /\ { found[i].id : i \in DOMAIN found }
               = { d \in DOMAIN _initialize_disease_database : MatchedCount(symptoms, d) > 0 }
          /\ \A i, j \in DOMAIN found : found[i].id = found[j].id => i = j
          /\ \A i \in DOMAIN found :
                /\ found[i].match_score.num = MatchedCount(symptoms, found[i].id)
                /\ found[i].match_score.den = Len(symptoms)
                /\ 0 < found[i].match_score.num
                /\ found[i].match_score.num <= found[i].match_score.den
          /\ \A i, j \in DOMAIN found :
                i < j => ~ScoreLess(found[i].match_score, found[j].match_score)

\* a search with two symptoms, one matched only through lower-casing, that
\* returns a full match and a half match
C14_Witness ==
    /\ CatalogServed("search_diseases_by_symptoms")
    /\ db_request.symptoms = << "lesions", "SPOTS" >>
    /\ \E i, j \in DOMAIN db_response.value :
          /\ db_response.value[i].match_score = MatchScore(2, db_request.symptoms)
          /\ db_response.value[j].match_score = MatchScore(1, db_request.symptoms)
          /\ db_response.value[j].id = "rice_blast"

\* C15: for every id d of the catalog, get_disease_info(d) returns a record,
\* and search_diseases_by_crop of that record's crop returns an entry with id d.
C15_InfoCropRoundTrip ==
    \A d \in DOMAIN disease_info :
        LET r == get_disease_info(disease_info, d)
        IN /\ r # None
           /\ LET found == search_diseases_by_crop(disease_info, r.crop).value
              IN \E i \in DOMAIN found : found[i].id = d

\* get_disease_info has returned the record of a disease, and the search by
\* that record's crop finds the disease
C15_Witness ==
    /\ CatalogServed("get_disease_info")
    /\ db_response.value # None
    /\ db_request.disease_id = "rice_blast"
    /\ LET found == search_diseases_by_crop(disease_info, db_response.value.crop).value
       IN Len(found) = 2 /\ found[1].id = "rice_blast"

(***************************************************************************)
(* Properties of the image analysis                                        *)
(***************************************************************************)
\* a decodable image was analysed and answered
ImageServed ==
    MLServed /\ ml_request.kind = "image" /\ ml_request.image_data # Undecodable
    /\ ml_response.kind = "ok"

\* C16: disease_indicators has brown_spots_detected exactly when the brown
\* coverage is above 5%, yellowing_detected exactly when the yellow coverage
\* is above 5%, and significant_discoloration exactly when their sum is above
\* 10%; the recommendations of the answer name the same findings.
C16_IndicatorThresholds ==
    ImageServed
    => LET image == ml_request.image_data
           indicators == _analyze_image_cv(image).disease_indicators
           recommendations == ml_response.body.recommendations
       IN /\ Contains(indicators, "brown_spots_detected") <=> image.brown_coverage > 5
          /\ Contains(indicators, "yellowing_detected") <=> image.yellow_coverage > 5
          /\ Contains(indicators, "significant_discoloration")
                <=> image.brown_coverage + image.yellow_coverage > 10
          /\ Contains(recommendations, "Brown spots detected") <=> image.brown_coverage > 5
          /\ Contains(recommendations, "Yellowing detected") <=> image.yellow_coverage > 5
          /\ Contains(recommendations, "Significant discoloration found")
                <=> image.brown_coverage + image.yellow_coverage > 10
          /\ \A i \in DOMAIN ml_response.body.disease_predictions :
                ml_response.body.disease_predictions[i].detection_method = "ML + Computer Vision"
                => ml_response.body.disease_predictions[i].symptoms_detected = indicators

\* scenario 3: brown coverage 8%, yellow coverage 3%
C16_Witness ==
    /\ ImageServed
    /\ ml_request.image_data.brown_coverage = 8
    /\ ml_request.image_data.yellow_coverage = 3
    /\ \E i \in DOMAIN ml_response.body.disease_predictions :
          ml_response.body.disease_predictions[i].symptoms_detected
             = << "brown_spots_detected", "significant_discoloration" >>

(***************************************************************************)
(* Requests of the rule engine and of the catalog in flight together: the  *)
(* services are module-level objects shared by all requests, each handler  *)
(* runs to its end without yielding, and the handlers of different         *)
(* requests interleave in any order                                        *)
(***************************************************************************)
ConcurrentWeatherRequests ==
    { [kind |-> "weather", crop |-> c, district |-> "pune",
       current_weather |-> [temperature |-> Num(18), humidity |-> Num(90),
                            rainfall |-> r, forecast |-> f],
       forecast_horizon_days |-> n] :
         c \in CropInputs, r \in {Num(5), Bad},
         f \in {Absent, [k |-> "list", days |-> << CHOOSE d \in ForecastDays : d.rainfall = Num(15) >>]},
         n \in 1 .. MaxHorizon }

ConcurrentCatalogRequests ==
    { req \in CatalogRequests :
        CASE req.kind = "get_disease_info" -> TRUE
          [] req.kind = "search_diseases_by_crop" -> TRUE
          [] req.kind = "search_diseases_by_symptoms" -> Len(req.symptoms) = 1
          [] req.kind = "get_treatment_recommendations" ->
                req.severity = "high" /\ req.disease_id = "rice_blast"
          [] req.kind = "get_prevention_guide" -> TRUE
          [] req.kind = "get_disease_calendar" -> TRUE
          [] req.kind = "get_economic_impact_analysis" -> Len(req.disease_ids) <= 1 }

SubmitConcurrentWeatherRequest ==
    /\ request = NoRequest
    /\ request' \in ConcurrentWeatherRequests
    /\ response' = NoResponse
    /\ UNCHANGED <<disease_models, ml_vars, db_vars>>

SubmitConcurrentCatalogRequest ==
    /\ db_request = NoRequest
    /\ db_request' \in ConcurrentCatalogRequests
    /\ UNCHANGED <<risk_vars, ml_vars, disease_info, db_response>>

NextConcurrent ==
    \/ SubmitConcurrentWeatherRequest
    \/ PredictDiseaseByWeather
    \/ CompleteWeatherRequest
    \/ SubmitConcurrentCatalogRequest
    \/ GetDiseaseInfo
    \/ SearchDiseasesByCrop
    \/ SearchDiseasesBySymptoms
    \/ GetTreatmentRecommendations
    \/ GetPreventionGuide
    \/ GetDiseaseCalendar
    \/ GetEconomicImpactAnalysis
    \/ CompleteCatalogRequest

SpecConcurrent == Init /\ [][NextConcurrent]_vars

\* C17: under every interleaving of weather-risk requests and catalog
\* operations the shared tables disease_models and disease_info keep their
\* initial contents; id and match_score are written to per-request copies.
C17_SharedTablesImmutable ==
    /\ disease_models = _initialize_disease_models
    /\ disease_info = _initialize_disease_database
    /\ \A d \in DOMAIN disease_info :
          "id" \notin DOMAIN disease_info[d] /\ "match_score" \notin DOMAIN disease_info[d]

\* a weather-risk request and a symptom search are in flight together, both
\* served; the search has written id and match_score on what it returned
C17_Witness ==
    /\ Served /\ Registered(request.crop) /\ Len(response.disease_risks) >= 1
    /\ CatalogServed("search_diseases_by_symptoms")
    /\ Len(db_response.value) >= 2
    /\ \A i \in DOMAIN db_response.value :
          /\ "id" \in DOMAIN db_response.value[i]
          /\ "match_score" \in DOMAIN db_response.value[i]

(***************************************************************************)
(* Properties of _assess_disease_risk                                      *)
(***************************************************************************)
\* the request is for a registered crop, its readings are numbers or absent
\* (the defaults stand in), and it carries a forecast list of numeric days
ScoredOnNumericForecast(req) ==
    /\ req # NoRequest
    /\ Registered(req.crop)
    /\ Numeric(CurrentTemp(req)) /\ Numeric(CurrentHumidity(req))
    /\ Numeric(CurrentRainfall(req))
    /\ req.current_weather.forecast.k = "list"
    /\ ~AssessRaises(CurrentTemp(req), CurrentHumidity(req), CurrentRainfall(req),
                     req.current_weather.forecast, req.forecast_horizon_days)

\* the assessment of the i-th disease of the request's crop
Assessment(req, i) ==
    _assess_disease_risk(CropDiseases(disease_models, req.crop)[i],
        CurrentTemp(req), CurrentHumidity(req), CurrentRainfall(req),
        req.current_weather.forecast, req.forecast_horizon_days)

\* 10 x the instantaneous score as the claim states it
ClaimedInstantaneous(m, t, h, r) ==
    3 * (IF m.temperature_range[1] <= t /\ t <= m.temperature_range[2] THEN 1 ELSE 0)
    + 3 * (IF h >= m.humidity_min THEN 1 ELSE 0)
    + 2 * (IF r >= m.rainfall_threshold THEN 1 ELSE 0)

\* 20 x critical_days x the overall risk as the claim states it
ClaimedOverall(m, t, h, r, favorable_days) ==
    ClaimedInstantaneous(m, t, h, r) * m.critical_days
    + 10 * Min(m.critical_days, favorable_days)

ClaimedLevel(m, overall) ==
    IF overall >= 14 * m.critical_days THEN "high"
    ELSE IF overall >= 8 * m.critical_days THEN "medium"
    ELSE IF overall >= 4 * m.critical_days THEN "low"
    ELSE "negligible"

ScannedDays(req) ==
    PySlice(req.current_weather.forecast.days, req.forecast_horizon_days)

\* how many of the three predicates hold on a day when each value missing
\* from the entry is replaced by the current value of the same kind
PredicatesWithCurrentFallback(m, day, current_temp, current_humidity, current_rainfall) ==
    (IF TempInRange(m, DictGet(day.temp_avg, current_temp)) THEN 1 ELSE 0)
    + (IF HumidityMet(m, DictGet(day.humidity_avg, current_humidity)) THEN 1 ELSE 0)
    + (IF RainfallMet(m, DictGet(day.rainfall, current_rainfall)) THEN 1 ELSE 0)

\* the scanned days that are favorable under that reading
FavorableWithCurrentFallback(req, m) ==
    { d \in DOMAIN ScannedDays(req) :
        PredicatesWithCurrentFallback(m, ScannedDays(req)[d], CurrentTemp(req),
            CurrentHumidity(req), CurrentRainfall(req)) >= 2 }

\* C19: a forecast day is counted as favorable exactly when at least 2 of the
\* 3 predicates hold for it, each value missing from the entry being replaced
\* by the current-weather value: the count of favorable days of every
\* assessment is the number of such days.
C19_FavorableWithCurrentFallback ==
    ScoredOnNumericForecast(request)
    => \A i \in DOMAIN RequestDiseases :
          Assessment(request, i).favorable_days
             = Cardinality(FavorableWithCurrentFallback(request, RequestDiseases[i]))

(***************************************************************************)
(* The forecast scan over horizons longer than the shortest critical       *)
(* window (3 days, wheat fusarium_head_blight)                             *)
(***************************************************************************)
\* a wet mild day, favorable for every disease of wheat
WetMildDay == [temp_avg |-> Num(25), humidity_avg |-> Num(90), rainfall |-> Num(15)]

\* wheat requests with a forecast of wet mild and dry cold days; the request
\* model puts no range on forecast_horizon_days, so -1 is served as well
ScanRequests ==
    { [kind |-> "weather", crop |-> "Wheat", district |-> "pune",
       current_weather |-> [temperature |-> Num(25), humidity |-> Num(80),
                            rainfall |-> Num(5), forecast |-> [k |-> "list", days |-> d]],
       forecast_horizon_days |-> h] :
         h \in {-1} \cup (1 .. MaxScanDays),
         d \in UNION { [1 .. n -> {WetMildDay, DryColdDay}] : n \in 0 .. MaxScanDays } }

SubmitScanRequest ==
    /\ request = NoRequest
    /\ request' \in ScanRequests
    /\ response' = NoResponse
    /\ UNCHANGED <<disease_models, ml_vars, db_vars>>

NextScan ==
    \/ SubmitScanRequest
    \/ PredictDiseaseByWeather
    \/ CompleteWeatherRequest

SpecScan == Init /\ [][NextScan]_vars

\* the scanned days that the loop counts as favorable for the disease
FavorableDays(req, m) ==
    { d \in DOMAIN ScannedDays(req) :
        DayFavorable(m, ScannedDays(req)[d], CurrentTemp(req), CurrentHumidity(req)) >= 2 }

\* the 1-based index of the first favorable day, 0 when there is none
FirstFavorable(req, m) ==
    IF FavorableDays(req, m) = {} THEN 0
    ELSE CHOOSE d \in FavorableDays(req, m) : \A e \in FavorableDays(req, m) : d <= e

\* the first favorable day lies within the critical window and the horizon
Imminent(req, m) ==
    /\ FirstFavorable(req, m) >= 1
    /\ FirstFavorable(req, m) <= Min(m.critical_days, req.forecast_horizon_days)

\* the days-until value of the assessment is what the answer reports for a
\* disease it lists
DaysUntilReported(req, i, days) ==
    /\ Assessment(req, i).days_until_risk = days
    /\ \A j \in DOMAIN response.disease_risks :
          response.disease_risks[j].disease = req.crop \o "_" \o RequestDiseases[i].name
          => response.disease_risks[j].days_until_expected = days

ScanServed == Served /\ ScoredOnNumericForecast(request) /\ InRange(request.forecast_horizon_days)

\* C20 as stated: the days-until value is the 1-based index of the first
\* favorable forecast day when that index is <= min(c, h), and h + 1 when no
\* favorable day occurs within the critical window.
C20_DaysUntilDefaultBeyondHorizon ==
    ScanServed
    => \A i \in DOMAIN RequestDiseases :
          LET m == RequestDiseases[i] IN
          DaysUntilReported(request, i,
              IF Imminent(request, m) THEN FirstFavorable(request, m)
              ELSE request.forecast_horizon_days + 1)

\* C20: the days-until value is the 1-based index of the first favorable
\* forecast day when that index is <= min(c, h); when no favorable day occurs
\* within the critical window it is h, the default h + 1 clipped to the
\* horizon.
C20_DaysUntilClippedToHorizon ==
    ScanServed
    => \A i \in DOMAIN RequestDiseases :
          LET m == RequestDiseases[i] IN
          DaysUntilReported(request, i,
              IF Imminent(request, m) THEN FirstFavorable(request, m)
              ELSE request.forecast_horizon_days)

\* a served answer whose first favorable day lies before the end of the
\* horizon: within the 14-day window of rust, which reports its index, and
\* beyond the 3-day window of fusarium head blight, which reports the horizon
C20_Witness ==
    /\ ScanServed
    /\ \E i, j \in DOMAIN RequestDiseases :
          /\ Imminent(request, RequestDiseases[i])
          /\ Assessment(request, i).days_until_risk = FirstFavorable(request, RequestDiseases[i])
          /\ FirstFavorable(request, RequestDiseases[j]) > RequestDiseases[j].critical_days
          /\ FirstFavorable(request, RequestDiseases[j]) < request.forecast_horizon_days
          /\ ~Imminent(request, RequestDiseases[j])
          /\ Assessment(request, j).days_until_risk = request.forecast_horizon_days
          /\ \E k \in DOMAIN response.disease_risks :
                /\ response.disease_risks[k].disease = request.crop \o "_" \o RequestDiseases[j].name
                /\ response.disease_risks[k].days_until_expected = request.forecast_horizon_days

(***************************************************************************)
(* Properties of the list of predict_disease_risk                          *)
(***************************************************************************)
\* the assessment of the i-th disease of the request's crop on a forecast
AssessedWith(req, i, forecast_data) ==
    _assess_disease_risk(CropDiseases(disease_models, req.crop)[i],
        CurrentTemp(req), CurrentHumidity(req), CurrentRainfall(req),
        forecast_data, req.forecast_horizon_days)

\* the positions of the list that hold an entry of the disease
EntriesOf(list, disease) == { j \in DOMAIN list : list[j].disease = disease }

\* the diseases of the request's crop that are not assessed negligible
NotNegligible(req, forecast_data) ==
    { i \in DOMAIN CropDiseases(disease_models, req.crop) :
        AssessedWith(req, i, forecast_data).risk_level # "negligible" }

\* the list has one entry for each disease not assessed negligible and
\* nothing else
ListsTheAssessed(req, list, forecast_data) ==
    /\ \A i \in DOMAIN CropDiseases(disease_models, req.crop) :
          Cardinality(EntriesOf(list,
              req.crop \o "_" \o CropDiseases(disease_models, req.crop)[i].name))
             = IF i \in NotNegligible(req, forecast_data) THEN 1 ELSE 0
    /\ Len(list) = Cardinality(NotNegligible(req, forecast_data))

\* the request reaches the loop over the diseases of its crop
DiseasesAssessed(req) ==
    /\ req # NoRequest
    /\ Registered(req.crop)
    /\ ~GenerateRaises(req.current_weather, req.forecast_horizon_days)

\* C21: for a crop with registered models, the returned list has exactly one
\* entry for each disease of the crop that is not assessed negligible and none
\* for a disease assessed negligible, on the forecast of the request or on
\* one the generator can draw; no entry of a returned list is negligible.
C21_NegligibleDropped ==
    (Served /\ Registered(request.crop))
    => /\ \A j \in DOMAIN response.disease_risks :
             response.disease_risks[j].risk_level # "negligible"
       /\ DiseasesAssessed(request)
          => \E draws \in DrawSeqs(request.forecast_horizon_days) :
                ListsTheAssessed(request, response.disease_risks,
                    ForecastData(request.current_weather,
                        _generate_weather_forecast(request.current_weather,
                            request.forecast_horizon_days, draws)))

\* a served request with a forecast of its own, one disease listed and
\* another assessed negligible and left out
C21_Witness ==
    /\ Served /\ DiseasesAssessed(request)
    /\ request.current_weather.forecast.k = "list"
    /\ InRange(request.forecast_horizon_days)
    /\ Len(response.disease_risks) >= 1
    /\ \E i \in DOMAIN RequestDiseases :
          /\ Assessment(request, i).risk_level = "negligible"
          /\ EntriesOf(response.disease_risks,
                 request.crop \o "_" \o RequestDiseases[i].name) = {}

(***************************************************************************)
(* Properties of _combine_predictions                                      *)
(***************************************************************************)
\* the image is judged poor: by its sharpness or by its brightness
JudgedPoor(image) ==
    \/ _analyze_image_cv(image).image_quality.sharpness = "poor"
    \/ _analyze_image_cv(image).image_quality.brightness = "poor"

\* min(1.0, p + 0.1 n), times 0.8 for a poor image, in thousandths
FusedConfidence(p, n, poor) ==
    IF poor THEN (Min(1000, p + 100 * n) * 8) \div 10 ELSE Min(1000, p + 100 * n)

\* what the classifier of the service answers for the pending image, should
\* its forest vote as the output says
MLPrediction(output) == _predict_disease_from_features(image_classifier, output)

\* the fused result for the pending image
Combined(output) ==
    _combine_predictions(MLPrediction(output), _analyze_image_cv(ml_request.image_data),
                         ml_request.crop_type)

\* the answer is the fused result of one of the outputs
AnswersCombined ==
    \E output \in ClassifierOutputs :
       /\ ml_response.body.confidence = Combined(output).confidence
       /\ ml_response.body.disease_predictions = Combined(output).diseases

PrimaryEntries(result, crop_type, ml_prediction) ==
    { i \in DOMAIN result.diseases :
        /\ result.diseases[i].detection_method = "ML + Computer Vision"
        /\ result.diseases[i].disease = crop_type \o "_" \o ml_prediction.disease }

\* the other entries of the list
AlternateEntries(result, crop_type, ml_prediction) ==
    DOMAIN result.diseases \ PrimaryEntries(result, crop_type, ml_prediction)

\* the probability the classifier gives the disease of an entry
ProbabilityOf(output, crop_type, entry) ==
    { output[k].prob : k \in { k \in DOMAIN output :
                                 crop_type \o "_" \o output[k].disease = entry.disease } }

\* C23 as stated: the primary disease is left out of the list exactly when the
\* fused confidence is below 0.3 (it is there at 0.3 and above), and the list
\* has at most 2 alternates, each a disease other than the primary with a
\* classifier probability above 0.2.
C23_PrimaryFromThreshold ==
    (ImageServed /\ image_classifier = "fitted")
    => /\ AnswersCombined
       /\ \A output \in ClassifierOutputs :
             LET result == Combined(output)
                 primary == PrimaryEntries(result, ml_request.crop_type, MLPrediction(output))
                 alternates == AlternateEntries(result, ml_request.crop_type, MLPrediction(output))
             IN /\ Cardinality(primary) = IF result.confidence >= 300 THEN 1 ELSE 0
                /\ Cardinality(alternates) <= 2
                /\ \A i \in alternates :
                      /\ result.diseases[i].disease
                            # ml_request.crop_type \o "_" \o MLPrediction(output).disease
                      /\ ProbabilityOf(output, ml_request.crop_type, result.diseases[i])
                            = {result.diseases[i].confidence}
                      /\ result.diseases[i].confidence > 200

\* C24 as stated: sharpness is judged poor exactly when the variance of the
\* Laplacian is <= 100, brightness exactly when the mean gray level is below
\* 50 or above 200, and the 0.8 penalty is applied exactly in those cases.
C24_QualityThresholds ==
    ImageServed
    => LET image == ml_request.image_data
           poor_sharpness == image.laplacian_var <= 100
           poor_brightness == image.brightness < 50 \/ image.brightness > 200
           n == Len(_analyze_image_cv(image).disease_indicators)
       IN /\ ml_response.body.image_quality.sharpness = "poor" <=> poor_sharpness
          /\ ml_response.body.image_quality.brightness = "poor" <=> poor_brightness
          /\ image_classifier = "fitted"
             => \E output \in ClassifierOutputs :
                   ml_response.body.confidence
                      = FusedConfidence(MLPrediction(output).confidence, n,
                                        poor_sharpness \/ poor_brightness)

(***************************************************************************)
(* Properties of the disease calendar                                      *)
(***************************************************************************)
\* the ids of the catalog's diseases of the crop
CatalogDiseasesOf(crop) ==
    { d \in DOMAIN _initialize_disease_database :
        StrLower(_initialize_disease_database[d].crop) = StrLower(crop) }

\* the labels under which the calendar lists the disease
Placements(calendar, name) ==
    { season \in DOMAIN calendar :
        \E i \in DOMAIN calendar[season] : calendar[season][i].disease = name }

\* a calendar was returned for a crop the catalog has diseases of
CalendarServed ==
    /\ CatalogServed("get_disease_calendar")
    /\ CatalogDiseasesOf(db_request.crop) # {}

\* C25 as stated: the calendar places each disease of the crop under exactly
\* one of the five season labels: every disease is there and none is under
\* two labels.
C25_OneSeasonEach ==
    CalendarServed
    => /\ "seasonal_disease_calendar" \in DOMAIN db_response.value
       /\ DOMAIN db_response.value.seasonal_disease_calendar = SeasonLabels
       /\ \A d \in CatalogDiseasesOf(db_request.crop) :
             Cardinality(Placements(db_response.value.seasonal_disease_calendar,
                                    _initialize_disease_database[d].name)) = 1

\* C25: the calendar has the five season labels and every disease of the crop
\* is in it, once under each of its labels: under monsoon alone, winter alone
\* or summer alone when its conditions meet the check of that season (the
\* first that is met, in this order), and under both spring and post_monsoon
\* when they meet none.
C25_OneSeasonOrSpringAndPostMonsoon ==
    CalendarServed
    => /\ "seasonal_disease_calendar" \in DOMAIN db_response.value
       /\ DOMAIN db_response.value.seasonal_disease_calendar = SeasonLabels
       /\ \A d \in CatalogDiseasesOf(db_request.crop) :
             LET calendar == db_response.value.seasonal_disease_calendar
                 placed == Placements(calendar, _initialize_disease_database[d].name)
                 conditions == _initialize_disease_database[d].conditions
                 monsoon == StrIn("high", StrLower(conditions.rainfall))
                            \/ StrIn(">10", conditions.rainfall)
                 winter == StrIn("cool", StrLower(conditions.favorable_conditions))
                           \/ StrIn("15-25", conditions.temperature_range)
                 summer == StrIn("hot", StrLower(conditions.favorable_conditions))
                           \/ StrIn("28-35", conditions.temperature_range)
             IN /\ placed = IF monsoon THEN {"monsoon"}
                            ELSE IF winter THEN {"winter"}
                            ELSE IF summer THEN {"summer"}
                            ELSE {"spring", "post_monsoon"}
                /\ \A season \in placed : \A i, j \in DOMAIN calendar[season] :
                      calendar[season][i].disease = calendar[season][j].disease => i = j
       /\ \A season \in SeasonLabels :
             \A i \in DOMAIN db_response.value.seasonal_disease_calendar[season] :
                \E d \in CatalogDiseasesOf(db_request.crop) :
                   db_response.value.seasonal_disease_calendar[season][i].disease
                      = _initialize_disease_database[d].name

\* the calendar of rice: Rice Blast under monsoon alone, Rice Brown Spot
\* under spring and under post_monsoon
C25_Witness ==
    /\ CalendarServed
    /\ db_request.crop = "rice"
    /\ Placements(db_response.value.seasonal_disease_calendar, "Rice Blast") = {"monsoon"}
    /\ Placements(db_response.value.seasonal_disease_calendar, "Rice Brown Spot")
          = {"spring", "post_monsoon"}

(***************************************************************************)
(* Properties of the treatment recommendations                             *)
(***************************************************************************)
\* what the operation returns for the pending request with the given
\* disease id, severity and preference
Recommendations(disease_id, severity, organic_preference) ==
    get_treatment_recommendations(disease_info, disease_id, severity,
                                  organic_preference).value

\* the severity tier: high, medium, and low for anything else
SeverityTier(severity) == IF severity \in {"high", "medium"} THEN severity ELSE "low"

\* C26: for a known disease the results with and without organic preference
\* differ only in priority_treatments and alternative_treatments, which are
\* swapped (organic first when preferred, chemical first otherwise);
\* immediate_actions depend only on the severity tier (high, medium, anything
\* else as low); an unknown disease id yields {error: 'Disease not found'}.
C26_OrganicPreferenceSwaps ==
    CatalogServed("get_treatment_recommendations")
    => LET mine == db_response.value
           id == db_request.disease_id
           severity == db_request.severity
           preferred == db_request.organic_preference
           other == Recommendations(id, severity, ~preferred)
       IN IF get_disease_info(_initialize_disease_database, id) = None
          THEN mine = [error |-> "Disease not found"] /\ other = mine
          ELSE /\ "error" \notin DOMAIN mine
               /\ DOMAIN other = DOMAIN mine
               /\ \A f \in DOMAIN mine \ {"priority_treatments", "alternative_treatments"} :
                     other[f] = mine[f]
               /\ other.priority_treatments = mine.alternative_treatments
               /\ other.alternative_treatments = mine.priority_treatments
               /\ mine.priority_treatments
                     = IF preferred THEN mine.organic_treatments ELSE mine.chemical_treatments
               /\ mine.alternative_treatments
                     = IF preferred THEN mine.chemical_treatments ELSE mine.organic_treatments
               /\ mine.organic_treatments # mine.chemical_treatments
               /\ \A d \in DOMAIN _initialize_disease_database, p \in BOOLEAN,
                     s \in SeverityInputs :
                     SeverityTier(s) = SeverityTier(severity)
                     => Recommendations(d, s, p).immediate_actions = mine.immediate_actions
               /\ \A s \in SeverityInputs :
                     SeverityTier(s) # SeverityTier(severity)
                     => Recommendations(id, s, preferred).immediate_actions
                           # mine.immediate_actions

\* recommendations for a known disease, asked by its display name, with
\* organic preference and a severity outside the three tiers
C26_Witness ==
    /\ CatalogServed("get_treatment_recommendations")
    /\ db_request.disease_id = "Wheat Rust"
    /\ db_request.severity = "severe"
    /\ db_request.organic_preference
    /\ "error" \notin DOMAIN db_response.value
    /\ db_response.value.priority_treatments = db_response.value.organic_treatments
    /\ db_response.value.immediate_actions = Recommendations("rice_blast", "low", FALSE).immediate_actions

(***************************************************************************)
(* Properties of the initialization of the ML service                      *)
(***************************************************************************)
\* C27 as stated: after the initialization, on every path, a fitted weather
\* classifier comes with a fitted scaler, and predict_weather_disease_risk
\* then answers a weather snapshot with status success and not with an
\* error.
C27_FittedClassifierHasFittedScaler ==
    /\ weather_classifier = "fitted" => scaler_fitted
    /\ (MLServed /\ ml_request.kind = "weather_ml" /\ weather_classifier = "fitted")
       => (ml_response.kind = "ok" /\ ml_response.body.status = "success")

(***************************************************************************)
(* Properties of the level high                                            *)
(***************************************************************************)
\* how many of the three predicates hold for the current weather
CurrentPredicates(req, m) ==
    (IF TempInRange(m, CurrentTemp(req)) THEN 1 ELSE 0)
    + (IF HumidityMet(m, CurrentHumidity(req)) THEN 1 ELSE 0)
    + (IF RainfallMet(m, CurrentRainfall(req)) THEN 1 ELSE 0)

\* the answer lists the disease with the level
Reported(req, m, level) ==
    \E j \in DOMAIN response.disease_risks :
       /\ response.disease_risks[j].disease = req.crop \o "_" \o m.name
       /\ response.disease_risks[j].risk_level = level

\* C28 as stated: an assessment of level high has at least two of the three
\* current-weather predicates met and at least 0.6 x critical_days favorable
\* forecast days; so a request whose horizon is below 0.6 x critical_days
\* of a disease never has that disease reported high.
C28_HighNeedsFavorableDays ==
    ScoredOnNumericForecast(request)
    => \A i \in DOMAIN RequestDiseases :
          LET m == RequestDiseases[i]
              a == Assessment(request, i)
          IN /\ a.risk_level = "high"
                => /\ CurrentPredicates(request, m) >= 2
                   /\ 10 * a.favorable_days >= 6 * m.critical_days
             /\ 10 * request.forecast_horizon_days < 6 * m.critical_days
                => /\ a.risk_level # "high"
                   /\ Served => ~Reported(request, m, "high")

(***************************************************************************)
(* Properties of the diseases that the current weather favours             *)
(***************************************************************************)
\* the request is for a registered crop and its current readings are
\* numbers, given or defaulted
NumericWeather(req) ==
    /\ req # NoRequest
    /\ Registered(req.crop)
    /\ Numeric(CurrentTemp(req)) /\ Numeric(CurrentHumidity(req))
    /\ Numeric(CurrentRainfall(req))

\* the diseases of the crop with at least two current predicates met
Favoured(req) ==
    { i \in DOMAIN CropDiseases(disease_models, req.crop) :
        CurrentPredicates(req, CropDiseases(disease_models, req.crop)[i]) >= 2 }

C30_NeverRaises ==
    (request # NoRequest /\ response # NoResponse)
    => /\ ~predict_disease_risk(disease_models, request.crop, request.current_weather,
               request.forecast_horizon_days,
               [i \in 1 .. Max(request.forecast_horizon_days, 0) |->
                   [temp_variation |-> 0, humidity_variation |-> 0, rainfall |-> 0]]).raised
       /\ response.kind = "ok"

====
